---- MODULE Spec2Model ----
(***************************************************************************)
(* Model of the nebius2api relay: the KeyPoolManager (credential pool kept *)
(* in an external key-value store), the admin routes that edit the pool    *)
(* and the chat-completions handler with its retry-on-exhaustion loop.     *)
(*                                                                         *)
(* The store is external and outlives the process, so a request can meet   *)
(* any pool the program's operations can leave there: each specification   *)
(* starts from a family of such pools and follows one chat request, cut at *)
(* each upstream dispatch because the upstream's answer is an input, or    *)
(* the operations of the pool and of the admin routes called on their own. *)
(*   Spec          every request body and upstream answer, small pools     *)
(*   SpecSelect    the selections of a request, pools with varied usage    *)
(*   SpecRetry     pools large enough for the retry ceiling to be exceeded *)
(*   SpecRetryLive the same, with the handler running to its answer        *)
(*   SpecBalance   repeated selections from a pool of new keys             *)
(*   SpecSweep     the rate-limit sweep, time passing and selections       *)
(*   SpecOps       one admin route or pool operation on a varied pool      *)
(*   SpecStream    a streamed answer cut into chunks at any byte           *)
(*   SpecThink     a stream of deltas with reasoning markers               *)
(*   SpecExtract   the reasoning extraction of a non-streamed answer       *)
(*   SpecError     the error transformer on varied rule tables             *)
(*   SpecRace      pool operations in flight side by side                  *)
(*   SpecConfig    the process from initialize(), with config updates      *)
(***************************************************************************)
EXTENDS Integers, Sequences, FiniteSets, TLC

VARIABLES
  store,        \* <prefix>:pool:<key> -> ApiKey record; DOMAIN store = the keys present
  config,       \* KeyPoolManager.config, the in-memory KeyPoolConfig (NoConfig: null)
  now,          \* Date.now()
  pc,           \* position of the chat handler: idle, dispatch, streaming, done
  body,         \* the request body being handled
  apiKey,       \* handler variable apiKey (0: unset)
  key,          \* parameter key of the pending sendRequest call
  retryAttempt, \* parameter retryAttempt of the pending sendRequest call
  upstream,     \* the 2xx answer whose stream is being forwarded (NoAnswer: none)
  response,     \* the response given to the client (NoResponse: none yet)
  dispatched,   \* history: keys used by the upstream dispatches of this request
  answers,      \* history: upstream answers received by this request
  selected,     \* history: keys returned by successful selections of this request
  disabled,     \* history: keys passed to disableKey by this request
  recorded,     \* history: <<key, usage>> of each updateKeyStats call of this request
  listed,       \* history: the records listKeys gave to the last successful selection
  excluded,     \* history: the excludeKey of that selection (0: getKey)
  store0,       \* history: the store when this request arrived
  storedConfig, \* <prefix>:config, the KeyPoolConfig kept in the store
  last,         \* history: the last pool or admin operation, its inputs and the state before
  stamps,       \* history: Date.now() of each successful stand-alone getKey()
  race,         \* the pool operations in flight side by side, and their history
  buffer,       \* transformStream: text kept from the chunks seen so far
  totals,       \* transformStream: totalTokens, promptTokens, completionTokens
  isProcessingReasoning, \* transformStream: inside a reasoning segment
  output,       \* the byte chunks enqueued to the client, in order
  fed           \* history: the byte chunks the upstream stream delivered, in order

\* the store-side and history variables of the pool operations
poolVars == <<storedConfig, last, stamps, race>>

\* the state of the stream transform
streamVars == <<buffer, totals, isProcessingReasoning, output, fed>>

vars == <<store, config, now, pc, body, apiKey, key, retryAttempt, upstream, response,
          dispatched, answers, selected, disabled, recorded, listed, excluded, store0,
          storedConfig, last, stamps, race,
          buffer, totals, isProcessingReasoning, output, fed>>

----------------------------------------------------------------------------
(* Bounds of the model *)

NumKeys == 2
MaxSelections == 4
MaxWindows == 2
MaxChunks == 2
MaxTasks == 2

(* Program constants *)

RESET_WINDOW == 60000
DEFAULT_RPM == 60
MAX_RETRY_ATTEMPTS == 3
MAX_TOKEN_LIMIT == 128000

KeyIds == 1..NumKeys

Algorithms == {"round-robin", "least-used", "token-balanced"}

\* An optional number (rpm?: number) is <<>> when undefined and <<n>> otherwise.
Undefined == <<>>

\* a || b on optional numbers: a when a is truthy (defined and not 0), else b
JsOr(a, b) == IF a # Undefined /\ a[1] # 0 THEN a ELSE b

----------------------------------------------------------------------------
(* KeyPoolManager *)

\* The record addKey writes.  (The record's key field is its index in store; its
\* algorithm field is written once and never read, and is left out.)
newKey(rpm, cfg, t) ==
  [ rateLimit |-> [ rpm |-> JsOr(rpm, JsOr(<<cfg.defaultRpm>>, <<DEFAULT_RPM>>))[1],
                    current |-> 0,
                    lastReset |-> t ],
    usage |-> [ totalTokens |-> 0, promptTokens |-> 0, completionTokens |-> 0,
                totalRequests |-> 0, lastUsed |-> 0 ],
    enabled |-> TRUE,
    disabledReason |-> "",
    disabledAt |-> 0 ]

\* redis.set(`pool:${k}`, rec)
redisSet(st, k, rec) == [j \in DOMAIN st \cup {k} |-> IF j = k THEN rec ELSE st[j]]

\* redis.del(`pool:${k}`)
\* Variant: the record is emptied of its counters and kept.
redisDelKeepsRecord(st, k) ==
  IF k \in DOMAIN st THEN [st EXCEPT ![k].usage.totalRequests = 0] ELSE st

redisDel(st, k) == [j \in DOMAIN st \ {k} |-> st[j]]

\* Variant: a key already in the store is left as it is.
addKeyKeepsExisting(st, k, rpm, cfg, t) ==
  IF k \in DOMAIN st THEN st ELSE redisSet(st, k, newKey(rpm, cfg, t))

addKey(st, k, rpm, cfg, t) == redisSet(st, k, newKey(rpm, cfg, t))

RECURSIVE Orders(_)
Orders(S) ==
  IF S = {} THEN {<<>>}
  ELSE UNION {{<<x>> \o s : s \in Orders(S \ {x})} : x \in S}

\* listKeys: the keys of the pool in the order redis.keys gives them, which the
\* store does not specify: every order is possible.
listKeys(st) == Orders(DOMAIN st)

\* Variant: > in place of >=.
WindowElapsedStrict(rec, t) == t - rec.rateLimit.lastReset > RESET_WINDOW

\* the window test of resetRateLimits
WindowElapsed(rec, t) == t - rec.rateLimit.lastReset >= RESET_WINDOW

\* key.rateLimit.current = 0; key.rateLimit.lastReset = now
ResetWindow(rec, t) == [rec EXCEPT !.rateLimit.current = 0, !.rateLimit.lastReset = t]

resetRateLimits(st, t) ==
  [k \in DOMAIN st |-> IF WindowElapsed(st[k], t) THEN ResetWindow(st[k], t) ELSE st[k]]

\* Variant: the filter on enabled is missing.
EnabledKeysUnfiltered(st, keys) == keys

\* keys.filter(k => k.enabled)
EnabledKeys(st, keys) == SelectSeq(keys, LAMBDA k : st[k].enabled)

\* Variant: the whole filter is missing.
EnabledKeysExcludingUnfiltered(st, keys, excludeKey) == keys

\* keys.filter(k => k.enabled && k.key !== excludeKey)
EnabledKeysExcluding(st, keys, excludeKey) ==
  SelectSeq(keys, LAMBDA k : st[k].enabled /\ k # excludeKey)

\* Variant: token-balanced compares totalRequests, as least-used does.
MetricTokensAsRequests(alg, rec) ==
  CASE alg = "round-robin" -> rec.usage.lastUsed
    [] alg = "least-used" -> rec.usage.totalRequests
    [] alg = "token-balanced" -> rec.usage.totalRequests

\* the field each algorithm's comparator reads
Metric(alg, rec) ==
  CASE alg = "round-robin" -> rec.usage.lastUsed
    [] alg = "least-used" -> rec.usage.totalRequests
    [] alg = "token-balanced" -> rec.usage.totalTokens

\* Variant: the comparator is reversed (b - a).
CompareDescending(st, alg, a, b) == Metric(alg, st[b]) - Metric(alg, st[a])

\* the comparator (a, b) => a.metric - b.metric
Compare(st, alg, a, b) == Metric(alg, st[a]) - Metric(alg, st[b])

\* Array.prototype.sort with that comparator: a stable sort
RECURSIVE SortKeys(_, _, _)
SortKeys(st, alg, keys) ==
  IF keys = <<>> THEN <<>>
  ELSE LET rest == SortKeys(st, alg, SubSeq(keys, 1, Len(keys) - 1))
           k == keys[Len(keys)]
       IN SelectSeq(rest, LAMBDA j : Compare(st, alg, j, k) <= 0)
          \o <<k>>
          \o SelectSeq(rest, LAMBDA j : Compare(st, alg, j, k) > 0)

\* the switch on the algorithm: sort(...)[0], or enabledKeys[0] by default
SelectByAlgorithm(st, alg, enabledKeys) ==
  IF alg \in Algorithms THEN SortKeys(st, alg, enabledKeys)[1] ELSE enabledKeys[1]

\* Variant: > in place of >=.
RateLimitExceededStrict(rec) == rec.rateLimit.current > rec.rateLimit.rpm

\* selectedKey.rateLimit.current >= selectedKey.rateLimit.rpm
RateLimitExceeded(rec) == rec.rateLimit.current >= rec.rateLimit.rpm

\* the update of the selected record before it is written back
\* Variant: the selection also restamps the window.
MarkSelectedRestamps(rec, t) ==
  [rec EXCEPT !.rateLimit.current = @ + 1,
              !.rateLimit.lastReset = t,
              !.usage.lastUsed = t,
              !.usage.totalRequests = @ + 1]

MarkSelected(rec, t) ==
  [rec EXCEPT !.rateLimit.current = @ + 1,
              !.usage.lastUsed = t,
              !.usage.totalRequests = @ + 1]

\* messages of the errors getKey and retryWithFreshKey throw
ERR_POOL_EMPTY == "No API keys available in the pool"
ERR_NONE_ENABLED == "No enabled API keys available in the pool"
ERR_RATE_LIMITED == "Rate limit exceeded for all available keys"
ERR_RETRY_NONE == "retry: no API keys available"
ERR_RETRY_RATE_LIMITED == "retry: rate limit exceeded for all available keys"

Thrown(msg, st) == [ok |-> FALSE, key |-> 0, error |-> msg, store |-> st]
Returned(k, st) == [ok |-> TRUE, key |-> k, error |-> "", store |-> st]

\* Variant: the counters are written before the rate limit is tested.
getKeyCountsFirst(st, keys, alg, t) ==
  IF Len(keys) = 0 THEN Thrown(ERR_POOL_EMPTY, st)
  ELSE LET enabledKeys == EnabledKeys(st, keys) IN
    IF Len(enabledKeys) = 0 THEN Thrown(ERR_NONE_ENABLED, st)
    ELSE LET selectedKey == SelectByAlgorithm(st, alg, enabledKeys)
             written == redisSet(st, selectedKey, MarkSelected(st[selectedKey], t))
         IN IF RateLimitExceeded(st[selectedKey]) THEN Thrown(ERR_RATE_LIMITED, written)
            ELSE Returned(selectedKey, written)

\* Variant: a candidate at its limit is passed over for the next in the order.
getKeyNextBest(st, keys, alg, t) ==
  IF Len(keys) = 0 THEN Thrown(ERR_POOL_EMPTY, st)
  ELSE LET enabledKeys == EnabledKeys(st, keys) IN
    IF Len(enabledKeys) = 0 THEN Thrown(ERR_NONE_ENABLED, st)
    ELSE LET free == SelectSeq(SortKeys(st, alg, enabledKeys),
                               LAMBDA k : ~RateLimitExceeded(st[k])) IN
      IF free = <<>> THEN Thrown(ERR_RATE_LIMITED, st)
      ELSE Returned(free[1], redisSet(st, free[1], MarkSelected(st[free[1]], t)))

\* getKey() without a user key, on the listing keys, at time t
getKey(st, keys, alg, t) ==
  IF Len(keys) = 0 THEN Thrown(ERR_POOL_EMPTY, st)
  ELSE LET enabledKeys == EnabledKeys(st, keys) IN
    IF Len(enabledKeys) = 0 THEN Thrown(ERR_NONE_ENABLED, st)
    ELSE LET selectedKey == SelectByAlgorithm(st, alg, enabledKeys) IN
      IF RateLimitExceeded(st[selectedKey]) THEN Thrown(ERR_RATE_LIMITED, st)
      ELSE Returned(selectedKey, redisSet(st, selectedKey, MarkSelected(st[selectedKey], t)))

retryWithFreshKey(st, keys, excludeKey, alg, t) ==
  LET enabledKeys == EnabledKeysExcluding(st, keys, excludeKey) IN
    IF Len(enabledKeys) = 0 THEN Thrown(ERR_RETRY_NONE, st)
    ELSE LET selectedKey == SelectByAlgorithm(st, alg, enabledKeys) IN
      IF RateLimitExceeded(st[selectedKey]) THEN Thrown(ERR_RETRY_RATE_LIMITED, st)
      ELSE Returned(selectedKey, redisSet(st, selectedKey, MarkSelected(st[selectedKey], t)))

\* the three counters updateKeyStats adds to
AddUsage(rec, usage) ==
  [rec EXCEPT !.usage.totalTokens = @ + usage.totalTokens,
              !.usage.promptTokens = @ + usage.promptTokens,
              !.usage.completionTokens = @ + usage.completionTokens]

\* Variant: a missing key gets a record holding the usage.
updateKeyStatsCreates(st, k, usage) ==
  IF k \notin DOMAIN st
  THEN redisSet(st, k, AddUsage(newKey(Undefined, [defaultRpm |-> DEFAULT_RPM], 0), usage))
  ELSE redisSet(st, k, AddUsage(st[k], usage))

updateKeyStats(st, k, usage) ==
  IF k \notin DOMAIN st THEN st ELSE redisSet(st, k, AddUsage(st[k], usage))

\* keyData.enabled = false, with the reason and the time
\* Variant: the reason and the time are written, the flag is not.
MarkDisabledKeepsFlag(rec, reason, t) ==
  [rec EXCEPT !.disabledReason = reason, !.disabledAt = t]

MarkDisabled(rec, reason, t) ==
  [rec EXCEPT !.enabled = FALSE, !.disabledReason = reason, !.disabledAt = t]

\* Variant: the record is changed but never written back.
disableKeyNoWrite(st, k, reason, t) == st

disableKey(st, k, reason, t) ==
  IF k \notin DOMAIN st THEN st ELSE redisSet(st, k, MarkDisabled(st[k], reason, t))

\* the record PUT /admin/keys/:key writes back (rpm, enabled: optional values)
updatedKey(rec, rpm, enabled) ==
  [rec EXCEPT !.rateLimit.rpm = IF rpm # Undefined THEN rpm[1] ELSE @,
              !.enabled = IF enabled # Undefined THEN enabled[1] ELSE @]

\* PUT /admin/config: the config written back for the patch {currentAlgorithm,
\* defaultRpm} (optional values), or the refusal of an unknown algorithm
updatedConfig(cfg, currentAlgorithm, defaultRpm) ==
  IF currentAlgorithm # Undefined /\ currentAlgorithm[1] \notin Algorithms
  THEN [ok |-> FALSE, config |-> cfg]
  ELSE [ok |-> TRUE,
        config |->
          [currentAlgorithm |-> IF currentAlgorithm # Undefined
                                THEN currentAlgorithm[1] ELSE cfg.currentAlgorithm,
           defaultRpm |-> IF defaultRpm # Undefined /\ defaultRpm[1] > 0
                          THEN defaultRpm[1] ELSE cfg.defaultRpm]]

\* this.config before initialize(), and a store without <prefix>:config
NoConfig == <<>>

\* the config initialize() falls back on, and persists, when the store has none
DefaultConfig == [currentAlgorithm |-> "round-robin", defaultRpm |-> DEFAULT_RPM]

\* initialize(): this.config = configRes || default, persisted when configRes was
\* absent.  The result is the manager's config and the config left in the store.
initialize(stored) ==
  IF stored # NoConfig
  THEN [config |-> stored, stored |-> stored]
  ELSE [config |-> DefaultConfig, stored |-> DefaultConfig]

----------------------------------------------------------------------------
(* ErrorTransformer *)

\* A rule's statusCode is a number, a list of numbers or '*': codes is the set of
\* statuses an exact or list matcher names.  message "" and transformedStatusCode
\* <<>> stand for an absent field, transform "" for an absent transform.
Rule(kind, codes, message, transform) ==
  [kind |-> kind, codes |-> codes, message |-> message,
   transformedStatusCode |-> <<>>, transform |-> transform]

defaultTransformConfig ==
  [enabled |-> TRUE,
   rules |-> << Rule("exact", {401}, "auth failed", "AUTH_ERROR"),
                Rule("exact", {400}, "bad request", "BAD_REQUEST"),
                Rule("exact", {403}, "forbidden", "FORBIDDEN"),
                Rule("exact", {404}, "not found", "NOT_FOUND"),
                Rule("exact", {429}, "too many requests", "TOO_MANY_REQUESTS"),
                Rule("list", {500, 501, 502, 503, 504}, "service unavailable", "SERVICE_ERROR"),
                Rule("wildcard", {}, "", "UNKNOWN") >>]

\* rule.statusCode === '*' || rule.statusCode === status || list.includes(status)
RuleMatches(rule, status) == rule.kind = "wildcard" \/ status \in rule.codes

\* rule.transform(error): the transforms of the default table build a fresh object,
\* the one of the 5xx rule copies error.requestId
ApplyTransform(rule, error) ==
  CASE rule.transform = "" -> error
    [] rule.transform = "UNKNOWN" -> [message |-> "unknown error"]
    [] rule.transform = "SERVICE_ERROR" ->
         [code |-> rule.transform, message |-> rule.message, requestId |-> error.requestId]
    [] OTHER -> [code |-> rule.transform, message |-> rule.message]

\* if (rule.message && typeof transformedError === 'object') the message is overwritten
WithMessage(rule, transformed) ==
  IF rule.message # ""
  THEN [f \in DOMAIN transformed \cup {"message"} |->
          IF f = "message" THEN rule.message ELSE transformed[f]]
  ELSE transformed

\* Variant: the loop does not return at the first match, the last match wins.
RECURSIVE FirstMatchLast(_, _, _)
FirstMatchLast(rules, status, i) ==
  IF i > Len(rules) THEN 0
  ELSE LET later == FirstMatchLast(rules, status, i + 1) IN
    IF later # 0 THEN later
    ELSE IF RuleMatches(rules[i], status) THEN i
    ELSE 0

RECURSIVE FirstMatch(_, _, _)
FirstMatch(rules, status, i) ==
  IF i > Len(rules) THEN 0
  ELSE IF RuleMatches(rules[i], status) THEN i
  ELSE FirstMatch(rules, status, i + 1)

transformError(error, status, cfg) ==
  IF ~cfg.enabled THEN [body |-> error, status |-> status]
  ELSE LET i == FirstMatch(cfg.rules, status, 1) IN
    IF i = 0 THEN [body |-> error, status |-> status]
    ELSE [body |-> WithMessage(cfg.rules[i], ApplyTransform(cfg.rules[i], error)),
          status |-> IF cfg.rules[i].transformedStatusCode # <<>>
                     THEN cfg.rules[i].transformedStatusCode[1] ELSE status]

----------------------------------------------------------------------------
(* Chat-completions handler: inputs *)

\* body.messages is missing, not an array, an empty array or a non-empty list;
\* body.model is missing ("") or given; tokens is encodeChat(...).length.
Bodies ==
  [messages : {"missing", "not-array", "empty", "list"},
   model : {"", "model"},
   tokens : {MAX_TOKEN_LIMIT, MAX_TOKEN_LIMIT + 1},
   stream : BOOLEAN]

NoBody == [messages |-> "missing", model |-> "", tokens |-> 0, stream |-> FALSE]

\* usage of a success body (total_tokens, prompt_tokens, completion_tokens)
Usages == {[total_tokens |-> 3, prompt_tokens |-> 2, completion_tokens |-> 1]}

\* What one fetch can give: a 2xx JSON body, a ChatCompletionResponse with its
\* usage; a non-2xx answer whose body is JSON (with or without the budget marker
\* in details.detail) or is not JSON; or no answer at all (fetch rejects, status 0).
OkAnswers ==
  {[status |-> 200, json |-> TRUE, marker |-> FALSE, requestId |-> "", usage |-> <<u>>] :
     u \in Usages}

ErrorStatuses == {402, 404, 418, 500}

ErrorAnswers ==
  {[status |-> s, json |-> TRUE, marker |-> m, requestId |-> "req-1", usage |-> <<>>] :
     s \in ErrorStatuses, m \in BOOLEAN}
  \cup {[status |-> s, json |-> FALSE, marker |-> FALSE, requestId |-> "", usage |-> <<>>] :
     s \in ErrorStatuses}

FetchRejected == [status |-> 0, json |-> FALSE, marker |-> FALSE, requestId |-> "", usage |-> <<>>]

Answers == OkAnswers \cup ErrorAnswers \cup {FetchRejected}

NoAnswer == [status |-> -1, json |-> FALSE, marker |-> FALSE, requestId |-> "", usage |-> <<>>]

\* resp.ok
RespOk(ans) == ans.status >= 200 /\ ans.status <= 299

\* the parsed error payload: details.detail holds the marker or not
errorData(ans) == [marker |-> ans.marker, requestId |-> ans.requestId]

\* resp.status === 402 && errorData?.details?.detail?.includes("exhausted your budget")
isKeyExhausted(ans) == ans.status = 402 /\ ans.marker

\* the usage object handed to updateKeyStats
UsageOf(u) ==
  [totalTokens |-> u.total_tokens, promptTokens |-> u.prompt_tokens,
   completionTokens |-> u.completion_tokens]

ZeroUsage == [totalTokens |-> 0, promptTokens |-> 0, completionTokens |-> 0]

\* the body of c.text(text, status)
TextBody(text) == [text |-> text]

\* the body of c.json({ error }, status)
ErrorBody(error) == [error |-> error]

\* the body of c.json({ message })
MessageBody(message) == [message |-> message]

\* the body of a streamed response: the transformed stream, collected in output
STREAM_BODY == [stream |-> "text/event-stream"]

NoResponse == [status |-> 0, body |-> TextBody("")]

\* no pool or admin operation yet
NoCall == [name |-> "none"]

\* the value of race where operations run one at a time
NoRace == [tasks |-> <<>>]

MSG_MESSAGES_REQUIRED == "Messages array is required and cannot be empty"
MSG_MODEL_REQUIRED == "Model field is required"
MSG_TOKEN_LIMIT == "Input exceeds maximum token limit of 128000"
MSG_MAX_RETRIES == "max retry attempts exceeded"
MSG_FETCH_FAILED == "fetch failed"
MSG_JSON_PARSE == "SyntaxError: not valid JSON"
REASON_EXHAUSTED == "budget exhausted"

\* Variant: the check of body.model is missing.
ValidationErrorNoModelCheck(b) ==
  IF b.messages # "list" THEN MSG_MESSAGES_REQUIRED
  ELSE IF b.tokens > MAX_TOKEN_LIMIT THEN MSG_TOKEN_LIMIT
  ELSE ""

\* the validation of the handler: the message of the 400 answer, "" when valid
ValidationError(b) ==
  IF b.messages # "list" THEN MSG_MESSAGES_REQUIRED
  ELSE IF b.model = "" THEN MSG_MODEL_REQUIRED
  ELSE IF b.tokens > MAX_TOKEN_LIMIT THEN MSG_TOKEN_LIMIT
  ELSE ""

\* Variant: the ceiling is one attempt too high.
RetryCeilingExceededLate(attempt) == attempt > MAX_RETRY_ATTEMPTS + 1

\* Variant: >= in place of >.
RetryCeilingExceededEarly(attempt) == attempt >= MAX_RETRY_ATTEMPTS

\* if (retryAttempt > MAX_RETRY_ATTEMPTS) throw
RetryCeilingExceeded(attempt) == attempt > MAX_RETRY_ATTEMPTS

----------------------------------------------------------------------------
(* Text and bytes.  A text is a sequence of code points, a chunk a sequence   *)
(* of bytes.                                                                 *)

REPLACEMENT == 65533

IsContinuation(b) == b >= 128 /\ b <= 191

\* new TextDecoder().decode(chunk): UTF-8, not fatal, no stream option, so the
\* bytes of a character cut by the end or the start of the chunk each decode to
\* U+FFFD.  (Characters of one to three bytes.)  A continuation byte belongs to
\* the lead byte before it; every other byte begins a character or is malformed.
Decode(bytes) ==
  LET n == Len(bytes)
      Lead2(i) == bytes[i] >= 194 /\ bytes[i] <= 223
      Lead3(i) == bytes[i] >= 224 /\ bytes[i] <= 239
      Cont(i) == i <= n /\ IsContinuation(bytes[i])
      Begins(i) ==
        ~(/\ Cont(i)
          /\ i > 1
          /\ \/ Lead2(i - 1)
             \/ Lead3(i - 1)
             \/ i > 2 /\ Lead3(i - 2) /\ Cont(i - 1))
      CodePoint(i) ==
        IF bytes[i] < 128 THEN bytes[i]
        ELSE IF Lead2(i) /\ Cont(i + 1)
        THEN (bytes[i] - 192) * 64 + (bytes[i + 1] - 128)
        ELSE IF Lead3(i) /\ Cont(i + 1) /\ Cont(i + 2)
        THEN (bytes[i] - 224) * 4096 + (bytes[i + 1] - 128) * 64 + (bytes[i + 2] - 128)
        ELSE REPLACEMENT
      starts == SelectSeq([i \in 1..n |-> i], Begins)
  IN [j \in 1..Len(starts) |-> CodePoint(starts[j])]

\* new TextEncoder().encode(text): one to three bytes for each character
Encode(text) ==
  LET Byte(k) ==
        LET c == text[(k + 2) \div 3]
            at == (k + 2) % 3
        IN IF c < 128 THEN (IF at = 0 THEN c ELSE -1)
           ELSE IF c < 2048
           THEN (IF at = 0 THEN 192 + (c \div 64)
                 ELSE IF at = 1 THEN 128 + (c % 64) ELSE -1)
           ELSE (IF at = 0 THEN 224 + (c \div 4096)
                 ELSE IF at = 1 THEN 128 + ((c \div 64) % 64) ELSE 128 + (c % 64))
      IsByte(b) == b >= 0
  IN SelectSeq([k \in 1..3 * Len(text) |-> Byte(k)], IsByte)

\* "\n\n"
NN == <<10, 10>>

\* buffer.split('\n\n')
RECURSIVE Split(_)
Split(text) ==
  IF \E i \in 1..Len(text) - 1 : text[i] = 10 /\ text[i + 1] = 10
  THEN LET i == CHOOSE i \in 1..Len(text) - 1 :
                  /\ text[i] = 10 /\ text[i + 1] = 10
                  /\ \A j \in 1..i - 1 : ~(text[j] = 10 /\ text[j + 1] = 10)
       IN <<SubSeq(text, 1, i - 1)>> \o Split(SubSeq(text, i + 2, Len(text)))
  ELSE <<text>>

\* white space and line terminators, as String.prototype.trim removes them
IsSpace(c) ==
  c \in {9, 10, 11, 12, 13, 32, 160, 5760, 8232, 8233, 8239, 8287, 12288, 65279}
        \cup 8192..8202

RECURSIVE TrimStart(_)
TrimStart(text) ==
  IF text # <<>> /\ IsSpace(Head(text)) THEN TrimStart(Tail(text)) ELSE text

RECURSIVE TrimEnd(_)
TrimEnd(text) ==
  IF text # <<>> /\ IsSpace(text[Len(text)])
  THEN TrimEnd(SubSeq(text, 1, Len(text) - 1)) ELSE text

\* message.trim()
Trim(text) == TrimEnd(TrimStart(text))

\* text.startsWith(prefix)
StartsWith(text, prefix) ==
  Len(text) >= Len(prefix) /\ SubSeq(text, 1, Len(prefix)) = prefix

\* text.slice(n)
Slice(text, n) == SubSeq(text, n + 1, Len(text))

\* text.includes(pat)
Includes(text, pat) ==
  \E i \in 1..Len(text) - Len(pat) + 1 : SubSeq(text, i, i + Len(pat) - 1) = pat

\* text.split(pat)[n] || '' for n = 0 and n = 1, where text includes pat (the
\* patterns split on cannot overlap themselves)
Part(text, pat, n) ==
  LET first == CHOOSE i \in 1..Len(text) - Len(pat) + 1 :
                 /\ SubSeq(text, i, i + Len(pat) - 1) = pat
                 /\ \A j \in 1..i - 1 : SubSeq(text, j, j + Len(pat) - 1) # pat
  IN IF n = 0 THEN SubSeq(text, 1, first - 1)
     ELSE SubSeq(text, first + Len(pat),
                 (CHOOSE i \in first + 1..Len(text) + 1 :
                    /\ \/ i = Len(text) + 1
                       \/ /\ i + Len(pat) - 1 <= Len(text)
                          /\ SubSeq(text, i, i + Len(pat) - 1) = pat
                    /\ \A j \in first + 1..i - 1 :
                         \/ j + Len(pat) - 1 > Len(text)
                         \/ SubSeq(text, j, j + Len(pat) - 1) # pat) - 1)

----------------------------------------------------------------------------
(* JSON, for the payloads of the frames: one digit, a string without escapes, *)
(* and the object that holds a usage.                                        *)

\* 'data: '
DATA_PREFIX == <<100, 97, 116, 97, 58, 32>>
\* 'data: [DONE]'
DATA_DONE == <<100, 97, 116, 97, 58, 32, 91, 68, 79, 78, 69, 93>>
\* '{"usage":{"total_tokens":'
J_USAGE_TOTAL == <<123, 34, 117, 115, 97, 103, 101, 34, 58, 123, 34, 116, 111, 116, 97, 108, 95, 116, 111, 107, 101, 110, 115, 34, 58>>
\* ',"prompt_tokens":'
J_USAGE_PROMPT == <<44, 34, 112, 114, 111, 109, 112, 116, 95, 116, 111, 107, 101, 110, 115, 34, 58>>
\* ',"completion_tokens":'
J_USAGE_COMPLETION == <<44, 34, 99, 111, 109, 112, 108, 101, 116, 105, 111, 110, 95, 116, 111, 107, 101, 110, 115, 34, 58>>
\* '}}'
J_USAGE_END == <<125, 125>>

IsDigit(c) == c >= 48 /\ c <= 57

\* a code point that may stand unescaped in a JSON string
IsPlainChar(c) == c >= 32 /\ c # 34 /\ c # 92

\* the white space JSON.parse skips
RECURSIVE SkipJsonSpace(_)
SkipJsonSpace(text) ==
  IF text # <<>> /\ Head(text) \in {9, 10, 13, 32} THEN SkipJsonSpace(Tail(text)) ELSE text

JsonNumber(n) == [type |-> "number", value |-> n]
JsonString(t) == [type |-> "string", value |-> t]
JsonUsage(total, prompt, completion) ==
  [type |-> "object",
   usage |-> [total_tokens |-> total, prompt_tokens |-> prompt,
              completion_tokens |-> completion]]

\* '{"choices":[{"delta":{', '"content":"', '"reasoning_content":"', '}}]}'
J_DELTA == <<123, 34, 99, 104, 111, 105, 99, 101, 115, 34, 58, 91, 123, 34, 100, 101, 108, 116, 97, 34, 58, 123>>
J_CONTENT == <<34, 99, 111, 110, 116, 101, 110, 116, 34, 58, 34>>
J_REASONING == <<34, 114, 101, 97, 115, 111, 110, 105, 110, 103, 95, 99, 111, 110, 116, 101, 110, 116, 34, 58, 34>>
J_DELTA_END == <<125, 125, 93, 125>>

\* a chunk with one choice, whose delta holds content, reasoning_content, both or
\* neither
JsonChunk(content, reasoning_content) ==
  [type |-> "chunk", content |-> content, reasoning_content |-> reasoning_content]

\* the length of the text of a usage object
UsageTextLen ==
  Len(J_USAGE_TOTAL) + Len(J_USAGE_PROMPT) + Len(J_USAGE_COMPLETION) + Len(J_USAGE_END) + 3

\* JSON.parse(text): [ok, value]; ok is false where JSON.parse throws
JsonParse(text) ==
  LET t == SkipJsonSpace(text)
      p1 == Len(J_USAGE_TOTAL)
      p2 == p1 + 1 + Len(J_USAGE_PROMPT)
      p3 == p2 + 1 + Len(J_USAGE_COMPLETION)
  IN IF Len(t) = 1 /\ IsDigit(t[1])
     THEN [ok |-> TRUE, value |-> JsonNumber(t[1] - 48)]
     ELSE IF /\ Len(t) >= 2 /\ t[1] = 34 /\ t[Len(t)] = 34
             /\ \A i \in 2..Len(t) - 1 : IsPlainChar(t[i])
     THEN [ok |-> TRUE, value |-> JsonString(SubSeq(t, 2, Len(t) - 1))]
     ELSE IF /\ Len(t) = UsageTextLen
             /\ SubSeq(t, 1, p1) = J_USAGE_TOTAL
             /\ IsDigit(t[p1 + 1])
             /\ SubSeq(t, p1 + 2, p2) = J_USAGE_PROMPT
             /\ IsDigit(t[p2 + 1])
             /\ SubSeq(t, p2 + 2, p3) = J_USAGE_COMPLETION
             /\ IsDigit(t[p3 + 1])
             /\ SubSeq(t, p3 + 2, Len(t)) = J_USAGE_END
     THEN [ok |-> TRUE,
           value |-> JsonUsage(t[p1 + 1] - 48, t[p2 + 1] - 48, t[p3 + 1] - 48)]
     ELSE IF t = J_DELTA \o J_DELTA_END
     THEN [ok |-> TRUE, value |-> JsonChunk(Undefined, Undefined)]
     ELSE IF /\ Len(t) > Len(J_DELTA) + Len(J_CONTENT) + Len(J_DELTA_END)
             /\ StartsWith(t, J_DELTA \o J_CONTENT)
             /\ SubSeq(t, Len(t) - Len(J_DELTA_END), Len(t)) = <<34>> \o J_DELTA_END
             /\ \A i \in Len(J_DELTA) + Len(J_CONTENT) + 1..Len(t) - Len(J_DELTA_END) - 1 :
                  IsPlainChar(t[i])
     THEN [ok |-> TRUE,
           value |-> JsonChunk(<<SubSeq(t, Len(J_DELTA) + Len(J_CONTENT) + 1,
                                        Len(t) - Len(J_DELTA_END) - 1)>>, Undefined)]
     ELSE [ok |-> FALSE, value |-> JsonNumber(0)]

\* JSON.stringify(value); the strings JsonParse gives hold nothing to escape
JsonStringify(value) ==
  CASE value.type = "number" -> <<48 + value.value>>
    [] value.type = "string" -> <<34>> \o value.value \o <<34>>
    [] value.type = "object" ->
         J_USAGE_TOTAL \o <<48 + value.usage.total_tokens>>
         \o J_USAGE_PROMPT \o <<48 + value.usage.prompt_tokens>>
         \o J_USAGE_COMPLETION \o <<48 + value.usage.completion_tokens>>
         \o J_USAGE_END
    [] value.type = "chunk" ->
         J_DELTA
         \o (IF value.content = Undefined THEN <<>>
             ELSE J_CONTENT \o value.content[1] \o <<34>>)
         \o (IF value.content = Undefined \/ value.reasoning_content = Undefined
             THEN <<>> ELSE <<44>>)
         \o (IF value.reasoning_content = Undefined THEN <<>>
             ELSE J_REASONING \o value.reasoning_content[1] \o <<34>>)
         \o J_DELTA_END

----------------------------------------------------------------------------
(* ResponseTransformer, streaming: the TransformStream of the handler *)

\* isSpecialThinkingModel(modelName): the name holds "Qwen/QwQ-32B"; of the model
\* names of the requests, these do
isSpecialThinkingModel(modelName) == modelName \in {"Qwen/QwQ-32B", "Qwen/QwQ-32B-fast"}

THINK_OPEN == <<60, 116, 104, 105, 110, 107, 62>>
THINK_CLOSE == <<60, 47, 116, 104, 105, 110, 107, 62>>

\* a field for a segment of the content: set where text.trim() is not empty
Kept(text) == IF Trim(text) # <<>> THEN <<text>> ELSE Undefined

\* the delta a chunk is given: [reasoning, content, reasoning_content]
Delta(reasoning, content, reasoning_content) ==
  [reasoning |-> reasoning, content |-> content, reasoning_content |-> reasoning_content]

\* the handling of choice.delta.content: the flag after it and the two fields
\* Variant: a closing marker splits the content and leaves the flag as it is.
transformDeltaKeepsFlag(reasoning, isSpecialModel, content) ==
  IF Includes(content, THINK_CLOSE)
  THEN Delta(reasoning, Kept(Part(content, THINK_CLOSE, 1)),
             Kept(Part(content, THINK_CLOSE, 0)))
  ELSE IF ~isSpecialModel /\ Includes(content, THINK_OPEN)
  THEN Delta(TRUE, Kept(Part(content, THINK_OPEN, 0)), Kept(Part(content, THINK_OPEN, 1)))
  ELSE IF reasoning THEN Delta(reasoning, Undefined, <<content>>)
  ELSE Delta(reasoning, <<content>>, Undefined)

\* thinkContent and afterThink are the parts around '</think>', beforeThink and
\* thinkContent those around '<think>'
transformDelta(reasoning, isSpecialModel, content) ==
  IF Includes(content, THINK_CLOSE)
  THEN Delta(FALSE, Kept(Part(content, THINK_CLOSE, 1)), Kept(Part(content, THINK_CLOSE, 0)))
  ELSE IF ~isSpecialModel /\ Includes(content, THINK_OPEN)
  THEN Delta(TRUE, Kept(Part(content, THINK_OPEN, 0)), Kept(Part(content, THINK_OPEN, 1)))
  ELSE IF reasoning THEN Delta(reasoning, Undefined, <<content>>)
  ELSE Delta(reasoning, <<content>>, Undefined)

\* what one message leaves: the counters, the flag and the chunks enqueued
Processed(tot, reasoning, out) == [totals |-> tot, reasoning |-> reasoning, out |-> out]

\* Variant: a usage is added to the counters instead of replacing them.
processMessageAddsUsage(tot, reasoning, model, message) ==
  LET trimmedMessage == Trim(message)
      forwarded == Processed(tot, reasoning, <<Encode(message \o NN)>>)
      parsed == JsonParse(Slice(trimmedMessage, 6))
  IN IF trimmedMessage = <<>> THEN Processed(tot, reasoning, <<>>)
     ELSE IF trimmedMessage # DATA_DONE /\ StartsWith(trimmedMessage, DATA_PREFIX)
             /\ parsed.ok
     THEN Processed(IF parsed.value.type = "object"
                    THEN [totalTokens |-> tot.totalTokens + parsed.value.usage.total_tokens,
                          promptTokens |-> tot.promptTokens + parsed.value.usage.prompt_tokens,
                          completionTokens |->
                            tot.completionTokens + parsed.value.usage.completion_tokens]
                    ELSE tot,
                    reasoning,
                    <<Encode(DATA_PREFIX \o JsonStringify(parsed.value) \o NN)>>)
     ELSE forwarded

\* Variant: a message that fails to parse is skipped.
processMessageDropsUnparsed(tot, reasoning, model, message) ==
  LET trimmedMessage == Trim(message)
      forwarded == Processed(tot, reasoning, <<Encode(message \o NN)>>)
      parsed == JsonParse(Slice(trimmedMessage, 6))
  IN IF trimmedMessage = <<>> THEN Processed(tot, reasoning, <<>>)
     ELSE IF trimmedMessage # DATA_DONE /\ StartsWith(trimmedMessage, DATA_PREFIX)
     THEN IF parsed.ok
          THEN Processed(tot, reasoning,
                         <<Encode(DATA_PREFIX \o JsonStringify(parsed.value) \o NN)>>)
          ELSE Processed(tot, reasoning, <<>>)
     ELSE forwarded

\* the frame enqueued for a chunk whose delta was given d, and the flag it leaves
processDelta(tot, d) ==
  Processed(tot, d.reasoning,
            <<Encode(DATA_PREFIX \o JsonStringify(JsonChunk(d.content, d.reasoning_content))
                     \o NN)>>)

\* the handling of a message whose payload parsed as data
processData(tot, reasoning, model, data) ==
  IF data.type = "chunk" /\ data.content # Undefined
  THEN processDelta(tot, transformDelta(reasoning, isSpecialThinkingModel(model),
                                        data.content[1]))
  ELSE Processed(IF data.type = "object" THEN UsageOf(data.usage) ELSE tot,
                 reasoning,
                 <<Encode(DATA_PREFIX \o JsonStringify(data) \o NN)>>)

\* the body of the loop over messages, for one message
processMessage(tot, reasoning, model, message) ==
  LET trimmedMessage == Trim(message)
      forwarded == Processed(tot, reasoning, <<Encode(message \o NN)>>)
  IN IF trimmedMessage = <<>> THEN Processed(tot, reasoning, <<>>)
     ELSE IF trimmedMessage = DATA_DONE THEN forwarded
     ELSE IF StartsWith(trimmedMessage, DATA_PREFIX)
     THEN LET parsed == JsonParse(Slice(trimmedMessage, 6)) IN
            IF parsed.ok THEN processData(tot, reasoning, model, parsed.value)
            ELSE forwarded
     ELSE forwarded

\* the loop over messages
RECURSIVE processMessages(_, _, _, _)
processMessages(tot, reasoning, model, messages) ==
  IF messages = <<>> THEN Processed(tot, reasoning, <<>>)
  ELSE LET first == processMessage(tot, reasoning, model, Head(messages))
           rest == processMessages(first.totals, first.reasoning, model, Tail(messages))
       IN Processed(rest.totals, rest.reasoning, first.out \o rest.out)

\* Variant: the text after the last terminator is dropped, not kept.
transformDropsRest(buf, tot, reasoning, model, chunk) ==
  LET messages == Split(buf \o Decode(chunk))
      done == processMessages(tot, reasoning, model, SubSeq(messages, 1, Len(messages) - 1))
  IN [buffer |-> <<>>, totals |-> done.totals, reasoning |-> done.reasoning,
      out |-> done.out]

\* transform(chunk, controller)
transform(buf, tot, reasoning, model, chunk) ==
  LET messages == Split(buf \o Decode(chunk))
      done == processMessages(tot, reasoning, model, SubSeq(messages, 1, Len(messages) - 1))
  IN [buffer |-> messages[Len(messages)], totals |-> done.totals,
      reasoning |-> done.reasoning, out |-> done.out]

\* flush(controller): what is enqueued for the text left in the buffer
flushed(buf) == IF Trim(buf) # <<>> THEN <<Encode(buf)>> ELSE <<>>

\* the frames an upstream stream is made of, as bytes
Frame(text) == Encode(text \o NN)

\* data: {"usage":{"total_tokens":3,"prompt_tokens":2,"completion_tokens":1}}
FRAME_USAGE == Frame(DATA_PREFIX \o JsonStringify(JsonUsage(3, 2, 1)))
\* data: {"usage":{"total_tokens":9,"prompt_tokens":5,"completion_tokens":4}}
FRAME_USAGE_FINAL == Frame(DATA_PREFIX \o JsonStringify(JsonUsage(9, 5, 4)))
\* data: "é"
FRAME_STRING == Frame(DATA_PREFIX \o <<34, 233, 34>>)
\* data:  7      (white space before the value)
FRAME_SPACED == Frame(DATA_PREFIX \o <<32, 55>>)
\* data: {       (not JSON)
FRAME_BROKEN == Frame(DATA_PREFIX \o <<123>>)
\* data: [DONE]
FRAME_DONE == Frame(DATA_DONE)
\* : ping        (not a data line)
FRAME_COMMENT == Frame(<<58, 32, 112, 105, 110, 103>>)

Frames == {FRAME_USAGE, FRAME_USAGE_FINAL, FRAME_STRING, FRAME_SPACED, FRAME_BROKEN,
           FRAME_DONE, FRAME_COMMENT}

----------------------------------------------------------------------------
(* Chat-completions handler: steps *)

Respond(status, content) ==
  /\ response' = [status |-> status, body |-> content]
  /\ pc' = "done"

\* The handler from the arrival of the request to the first sendRequest call:
\* validation, then getKey().
ChatStart(b) ==
  /\ pc = "idle"
  /\ body' = b
  /\ store0' = store
  /\ IF ValidationError(b) # ""
     THEN /\ Respond(400, TextBody(ValidationError(b)))
          /\ UNCHANGED <<store, apiKey, key, selected, listed>>
     ELSE \E keys \in listKeys(store) :
            LET r == getKey(store, keys, config.currentAlgorithm, now) IN
              IF r.ok
              THEN /\ store' = r.store
                   /\ apiKey' = r.key
                   /\ key' = r.key
                   /\ selected' = <<r.key>>
                   /\ listed' = store
                   /\ pc' = "dispatch"
                   /\ UNCHANGED response
              ELSE /\ Respond(429, TextBody(r.error))
                   /\ store' = r.store
                   /\ UNCHANGED <<apiKey, key, selected, listed>>
  /\ UNCHANGED <<config, now, retryAttempt, upstream, dispatched, answers, disabled,
                 recorded, excluded, poolVars, streamVars>>

\* One call sendRequest(key, retryAttempt), the upstream answering ans, up to the
\* recursive call or, when there is none, to the end of the handler.
SendRequest(ans) ==
  /\ pc = "dispatch"
  /\ IF RetryCeilingExceeded(retryAttempt)
     THEN \* thrown before any fetch, caught by the handler: 503
          /\ Respond(503, ErrorBody(MSG_MAX_RETRIES))
          /\ UNCHANGED <<store, apiKey, key, retryAttempt, upstream, dispatched, answers,
                         selected, disabled, recorded, listed, excluded>>
     ELSE
       /\ dispatched' = Append(dispatched, key)
       /\ answers' = Append(answers, ans)
       /\ IF ans = FetchRejected
          THEN \* fetch rejects: sendRequest throws
               /\ Respond(503, ErrorBody(MSG_FETCH_FAILED))
               /\ UNCHANGED <<store, apiKey, key, retryAttempt, upstream, selected,
                              disabled, recorded, listed, excluded>>
          ELSE IF RespOk(ans)
          THEN IF body.stream
               THEN \* the stream is handed to the client; usage is recorded at flush
                    /\ response' = [status |-> 200, body |-> STREAM_BODY]
                    /\ pc' = "streaming"
                    /\ upstream' = ans
                    /\ UNCHANGED <<store, apiKey, key, retryAttempt, selected, disabled,
                                   recorded, listed, excluded>>
               ELSE \* if (data.usage) updateKeyStats(apiKey, data.usage)
                    /\ IF ans.usage # <<>>
                       THEN /\ store' = updateKeyStats(store, apiKey, UsageOf(ans.usage[1]))
                            /\ recorded' = Append(recorded, <<apiKey, UsageOf(ans.usage[1])>>)
                       ELSE UNCHANGED <<store, recorded>>
                    /\ Respond(200, ans)
                    /\ UNCHANGED <<apiKey, key, retryAttempt, upstream, selected, disabled,
                                   listed, excluded>>
          ELSE IF ~ans.json
          THEN \* resp.clone().json() rejects: sendRequest throws
               /\ Respond(503, ErrorBody(MSG_JSON_PARSE))
               /\ UNCHANGED <<store, apiKey, key, retryAttempt, upstream, selected,
                              disabled, recorded, listed, excluded>>
          ELSE IF isKeyExhausted(ans)
          THEN \* disableKey(key), then retryWithFreshKey(key)
               /\ disabled' = Append(disabled, key)
               /\ \E keys \in listKeys(store) :
                    LET st1 == disableKey(store, key, REASON_EXHAUSTED, now)
                        r == retryWithFreshKey(st1, keys, key, config.currentAlgorithm, now)
                    IN /\ store' = r.store
                       /\ IF r.ok
                          THEN /\ apiKey' = r.key
                               /\ key' = r.key
                               /\ retryAttempt' = retryAttempt + 1
                               /\ selected' = Append(selected, r.key)
                               /\ listed' = st1
                               /\ excluded' = key
                               /\ UNCHANGED <<pc, response>>
                          ELSE /\ Respond(503, ErrorBody(r.error))
                               /\ UNCHANGED <<apiKey, key, retryAttempt, selected,
                                              listed, excluded>>
               /\ UNCHANGED <<upstream, recorded>>
          ELSE \* any other non-2xx answer: transformError, not retried
               /\ LET t == transformError(errorData(ans), ans.status, defaultTransformConfig)
                  IN Respond(t.status, t.body)
               /\ UNCHANGED <<store, apiKey, key, retryAttempt, upstream, selected,
                              disabled, recorded, listed, excluded>>
  /\ isProcessingReasoning' =
       IF ~RetryCeilingExceeded(retryAttempt) /\ RespOk(ans) /\ body.stream
       THEN isSpecialThinkingModel(body.model)
       ELSE isProcessingReasoning
  /\ UNCHANGED <<config, now, body, store0, poolVars, buffer, totals, output, fed>>

\* transformStream.transform: the upstream stream delivers the bytes chunk
StreamChunk(chunk) ==
  /\ pc = "streaming"
  /\ Len(fed) < MaxChunks
  /\ fed' = Append(fed, chunk)
  /\ LET r == transform(buffer, totals, isProcessingReasoning, body.model, chunk) IN
       /\ buffer' = r.buffer
       /\ totals' = r.totals
       /\ isProcessingReasoning' = r.reasoning
       /\ output' = output \o r.out
  /\ UNCHANGED <<store, config, now, pc, body, apiKey, key, retryAttempt, upstream,
                 response, dispatched, answers, selected, disabled, recorded, listed,
                 excluded, store0, poolVars>>

\* transformStream.flush: the stream has ended, usage is recorded against apiKey
StreamFlush ==
  /\ pc = "streaming"
  /\ output' = output \o flushed(buffer)
  /\ store' = updateKeyStats(store, apiKey, totals)
  /\ recorded' = Append(recorded, <<apiKey, totals>>)
  /\ pc' = "done"
  /\ UNCHANGED <<config, now, body, apiKey, key, retryAttempt, upstream, response,
                 dispatched, answers, selected, disabled, listed, excluded, store0,
                 poolVars, buffer, totals, isProcessingReasoning, fed>>

----------------------------------------------------------------------------
(* ResponseTransformer, non-streaming: choice.message of a 2xx answer *)

\* Variant: the segments are taken as they are, without trimming, and an empty
\* content is handled like any other.
extractThinkUntrimmed(isSpecialModel, content) ==
  IF isSpecialModel
  THEN IF Includes(content, THINK_CLOSE)
       THEN [content |-> Part(content, THINK_CLOSE, 1),
             reasoning_content |-> <<Part(content, THINK_CLOSE, 0)>>]
       ELSE [content |-> <<>>, reasoning_content |-> <<content>>]
  ELSE LET rest == SubSeq(content, Len(Part(content, THINK_OPEN, 0)) + Len(THINK_OPEN) + 1,
                          Len(content))
       IN IF Includes(content, THINK_OPEN) /\ Includes(rest, THINK_CLOSE)
          THEN [content |-> Part(content, THINK_OPEN, 0)
                              \o SubSeq(rest, Len(Part(rest, THINK_CLOSE, 0))
                                                + Len(THINK_CLOSE) + 1, Len(rest)),
                reasoning_content |-> <<Part(rest, THINK_CLOSE, 0)>>]
          ELSE [content |-> content, reasoning_content |-> Undefined]

\* the message given for choice.message.content: its content and its
\* reasoning_content.  /<think>([\s\S]*?)<\/think>/ matches from the first opening
\* marker that a closing marker follows, that is the first one, to the first
\* closing marker after it.
extractThink(isSpecialModel, content) ==
  IF content = <<>> THEN [content |-> content, reasoning_content |-> Undefined]
  ELSE IF isSpecialModel
  THEN IF Includes(content, THINK_CLOSE)
       THEN [content |-> Trim(Part(content, THINK_CLOSE, 1)),
             reasoning_content |-> <<Trim(Part(content, THINK_CLOSE, 0))>>]
       ELSE [content |-> <<>>, reasoning_content |-> <<Trim(content)>>]
  ELSE LET rest == SubSeq(content, Len(Part(content, THINK_OPEN, 0)) + Len(THINK_OPEN) + 1,
                          Len(content))
       IN IF Includes(content, THINK_OPEN) /\ Includes(rest, THINK_CLOSE)
          THEN [content |-> Trim(Part(content, THINK_OPEN, 0)
                                   \o SubSeq(rest, Len(Part(rest, THINK_CLOSE, 0))
                                                     + Len(THINK_CLOSE) + 1, Len(rest))),
                reasoning_content |-> <<Trim(Part(rest, THINK_CLOSE, 0))>>]
          ELSE [content |-> content, reasoning_content |-> Undefined]

----------------------------------------------------------------------------
(* KeyPoolManager and admin routes: one operation each *)

\* the time at which the requests and operations of a behaviour begin
Now0 == RESET_WINDOW + 2

\* KeyPoolManager.getKey() called on its own, d milliseconds after the last step.
PoolSelect(d) ==
  /\ pc = "idle"
  /\ Len(stamps) < MaxSelections
  /\ d = 0 \/ now + d <= Now0 + MaxSelections
  /\ now' = now + d
  /\ \E keys \in listKeys(store) :
       LET r == getKey(store, keys, config.currentAlgorithm, now') IN
         /\ store' = r.store
         /\ stamps' = IF r.ok THEN Append(stamps, now') ELSE stamps
         /\ last' = [name |-> "getKey", ok |-> r.ok, key |-> r.key, error |-> r.error,
                     before |-> store, at |-> now']
  /\ UNCHANGED <<config, pc, body, apiKey, key, retryAttempt, upstream, response,
                 dispatched, answers, selected, disabled, recorded, listed, excluded,
                 store0, storedConfig, race, streamVars>>

\* the response of an admin route
AdminRespond(status, content) == response' = [status |-> status, body |-> content]

\* the state of the request handler and of the stream, which no pool operation touches
idleFrame == <<config, now, pc, body, apiKey, key, retryAttempt, upstream, dispatched,
               answers, selected, disabled, recorded, listed, excluded, store0, stamps,
               streamVars>>

\* what the admin routes and the pool operations below leave alone
opFrame == <<idleFrame, race>>

\* POST /admin/keys with {key, rpm}
AdminAddKey(k, rpm) ==
  /\ pc = "idle"
  /\ store' = addKey(store, k, rpm, config, now)
  /\ AdminRespond(200, MessageBody("Key added successfully"))
  /\ last' = [name |-> "addKey", key |-> k, rpm |-> rpm, before |-> store, at |-> now]
  /\ UNCHANGED <<storedConfig, opFrame>>

\* PUT /admin/keys/:key with {rpm, enabled}
AdminUpdateKey(k, rpm, enabled) ==
  /\ pc = "idle"
  /\ IF k \notin DOMAIN store
     THEN /\ AdminRespond(404, ErrorBody("Key not found"))
          /\ UNCHANGED store
     ELSE /\ store' = redisSet(store, k, updatedKey(store[k], rpm, enabled))
          /\ AdminRespond(200, MessageBody("Key updated successfully"))
  /\ last' = [name |-> "updateKey", key |-> k, rpm |-> rpm, enabled |-> enabled,
              before |-> store, at |-> now]
  /\ UNCHANGED <<storedConfig, opFrame>>

\* DELETE /admin/keys/:key
AdminDeleteKey(k) ==
  /\ pc = "idle"
  /\ IF k \notin DOMAIN store
     THEN /\ AdminRespond(404, ErrorBody("Key not found"))
          /\ UNCHANGED store
     ELSE /\ store' = redisDel(store, k)
          /\ AdminRespond(200, MessageBody("Key deleted successfully"))
  /\ last' = [name |-> "deleteKey", key |-> k, before |-> store, at |-> now]
  /\ UNCHANGED <<storedConfig, opFrame>>

\* Variant: the route also hands the new config to the manager.
AdminUpdateConfigReloads(currentAlgorithm, defaultRpm) ==
  /\ pc = "idle"
  /\ LET r == updatedConfig(storedConfig, currentAlgorithm, defaultRpm) IN
       IF r.ok
       THEN /\ storedConfig' = r.config
            /\ config' = r.config
            /\ AdminRespond(200, MessageBody("Configuration updated successfully"))
       ELSE /\ AdminRespond(400, ErrorBody("Invalid algorithm"))
            /\ UNCHANGED <<storedConfig, config>>
  /\ last' = [name |-> "updateConfig", currentAlgorithm |-> currentAlgorithm,
              defaultRpm |-> defaultRpm, configBefore |-> storedConfig,
              before |-> store, at |-> now]
  /\ UNCHANGED <<store, now, pc, body, apiKey, key, retryAttempt, upstream, dispatched,
                 answers, selected, disabled, recorded, listed, excluded, store0, stamps,
                 streamVars, race>>

\* PUT /admin/config with {currentAlgorithm, defaultRpm}.  The config is in the
\* store since initialize(), so the route's 404 is not met.
AdminUpdateConfig(currentAlgorithm, defaultRpm) ==
  /\ pc = "idle"
  /\ LET r == updatedConfig(storedConfig, currentAlgorithm, defaultRpm) IN
       IF r.ok
       THEN /\ storedConfig' = r.config
            /\ AdminRespond(200, MessageBody("Configuration updated successfully"))
       ELSE /\ AdminRespond(400, ErrorBody("Invalid algorithm"))
            /\ UNCHANGED storedConfig
  /\ last' = [name |-> "updateConfig", currentAlgorithm |-> currentAlgorithm,
              defaultRpm |-> defaultRpm, configBefore |-> storedConfig,
              before |-> store, at |-> now]
  /\ UNCHANGED <<store, opFrame>>

\* keyPoolManager.initialize() at the start of the process, before any request
\* is served
Initialize ==
  /\ pc = "idle"
  /\ config = NoConfig
  /\ config' = initialize(storedConfig).config
  /\ storedConfig' = initialize(storedConfig).stored
  /\ last' = [name |-> "initialize", configBefore |-> storedConfig, before |-> store,
              at |-> now]
  /\ UNCHANGED <<store, response, now, pc, body, apiKey, key, retryAttempt, upstream,
                 dispatched, answers, selected, disabled, recorded, listed, excluded,
                 store0, stamps, streamVars, race>>

\* KeyPoolManager.updateKeyStats(k, usage) called on its own
RecordUsage(k, usage) ==
  /\ pc = "idle"
  /\ store' = updateKeyStats(store, k, usage)
  /\ last' = [name |-> "updateKeyStats", key |-> k, usage |-> usage, before |-> store,
              at |-> now]
  /\ UNCHANGED <<response, storedConfig, opFrame>>

\* KeyPoolManager.disableKey(k, reason) called on its own
Disable(k, reason) ==
  /\ pc = "idle"
  /\ store' = disableKey(store, k, reason, now)
  /\ last' = [name |-> "disableKey", key |-> k, reason |-> reason, before |-> store,
              at |-> now]
  /\ UNCHANGED <<response, storedConfig, opFrame>>

\* One firing of the interval armed by startRateLimitResetJob: resetRateLimits().
Sweep ==
  /\ pc = "idle"
  /\ store' = resetRateLimits(store, now)
  /\ last' = [name |-> "sweep", before |-> store, at |-> now]
  /\ UNCHANGED <<config, now, pc, body, apiKey, key, retryAttempt, upstream, response,
                 dispatched, answers, selected, disabled, recorded, listed, excluded,
                 store0, storedConfig, stamps, race, streamVars>>

\* the last instant of the behaviours that let time pass
Horizon == Now0 + MaxWindows * RESET_WINDOW

\* A window's length of time passes.
Tick ==
  /\ pc = "idle"
  /\ now + RESET_WINDOW <= Horizon
  /\ now' = now + RESET_WINDOW
  /\ UNCHANGED <<store, config, pc, body, apiKey, key, retryAttempt, upstream, response,
                 dispatched, answers, selected, disabled, recorded, listed, excluded,
                 store0, poolVars, streamVars>>

----------------------------------------------------------------------------
(* The pools a request can meet *)

EmptyStore == [k \in {} |-> 0]

\* A key added at time 1 with rpm 2 ...
BaseKey == newKey(<<2>>, [currentAlgorithm |-> "round-robin", defaultRpm |-> DEFAULT_RPM], 1)

\* ... selected at the times of a history ...
RECURSIVE SelectedAt(_, _)
SelectedAt(rec, times) ==
  IF times = <<>> THEN rec ELSE SelectedAt(MarkSelected(rec, Head(times)), Tail(times))

Histories == {<<2>>, <<3>>, <<2, 3>>}

\* ... whose usage was recorded or not, whose window was reset by a later sweep or
\* not, and which was disabled or not.
UsedRecords ==
  LET used == {SelectedAt(BaseKey, h) : h \in Histories}
      billed == used \cup {AddUsage(r, UsageOf(u)) : r \in used, u \in Usages}
  IN billed \cup {ResetWindow(r, RESET_WINDOW + 1) : r \in billed}

VariedRecords ==
  LET all == {BaseKey} \cup UsedRecords
  IN all \cup {MarkDisabled(r, REASON_EXHAUSTED, 4) : r \in all}

\* a new key, a disabled one, one at its rate limit, one with recorded usage
PlainRecords ==
  { BaseKey,
    MarkDisabled(BaseKey, REASON_EXHAUSTED, 4),
    SelectedAt(BaseKey, <<2, 3>>),
    AddUsage(SelectedAt(BaseKey, <<2>>), UsageOf(CHOOSE u \in Usages : TRUE)) }

RetryRecords ==
  { BaseKey, MarkDisabled(BaseKey, REASON_EXHAUSTED, 4), SelectedAt(BaseKey, <<2, 3>>) }

\* every pool over some of the keys ids, with records from recs
Pools(ids, recs) == UNION {[S -> recs] : S \in SUBSET ids}

RetryKeyIds == 1..(MAX_RETRY_ATTEMPTS + 2)

----------------------------------------------------------------------------
(* Specifications *)

\* After initialize(): the config loaded from the store.  The request arrives after
\* every operation that built the pool.
InitIdle ==
  /\ pc = "idle"
  /\ body = NoBody
  /\ apiKey = 0
  /\ key = 0
  /\ retryAttempt = 0
  /\ upstream = NoAnswer
  /\ response = NoResponse
  /\ dispatched = <<>>
  /\ answers = <<>>
  /\ selected = <<>>
  /\ disabled = <<>>
  /\ recorded = <<>>
  /\ listed = EmptyStore
  /\ excluded = 0
  /\ store0 = EmptyStore
  /\ last = NoCall
  /\ stamps = <<>>
  /\ buffer = <<>>
  /\ totals = ZeroUsage
  /\ isProcessingReasoning = FALSE
  /\ output = <<>>
  /\ fed = <<>>

\* no pool operations in flight side by side
InitHandler ==
  /\ InitIdle
  /\ race = NoRace

InitRequest ==
  /\ config \in [currentAlgorithm : Algorithms, defaultRpm : {DEFAULT_RPM}]
  /\ storedConfig = config
  /\ now = RESET_WINDOW + 2
  /\ InitHandler

Init ==
  /\ store \in Pools(KeyIds, PlainRecords)
  /\ InitRequest

\* the chunks of the streams of Spec: whole frames
WholeFrames == {FRAME_USAGE, FRAME_USAGE_FINAL, FRAME_DONE}

Next ==
  \/ \E b \in Bodies : ChatStart(b)
  \/ \E ans \in Answers : SendRequest(ans)
  \/ \E chunk \in WholeFrames : StreamChunk(chunk)
  \/ StreamFlush

Spec == Init /\ [][Next]_vars

\* a valid body, and the answer that makes the handler select again
ValidBodies == {b \in Bodies : ValidationError(b) = "" /\ ~b.stream}
ExhaustedAnswers == {a \in ErrorAnswers : isKeyExhausted(a)}

InitSelect ==
  /\ store \in Pools(KeyIds, VariedRecords)
  /\ InitRequest

NextSelect ==
  \/ \E b \in ValidBodies : ChatStart(b)
  \/ \E ans \in ExhaustedAnswers : SendRequest(ans)

SpecSelect == InitSelect /\ [][NextSelect]_vars

InitRetry ==
  /\ store \in [RetryKeyIds -> RetryRecords]
  /\ InitRequest

NextRetry ==
  \/ \E b \in ValidBodies : ChatStart(b)
  \/ \E ans \in ExhaustedAnswers \cup OkAnswers : SendRequest(ans)

SpecRetry == InitRetry /\ [][NextRetry]_vars

\* The same request under fairness, over the pools of fresh and disabled keys,
\* with every answer and both kinds of body. Every fetch settles (the upstream
\* answers or the fetch rejects), every store call returns and the stream of a
\* success ends, so the handler always runs to its next await.
LiveRecords == { BaseKey, MarkDisabled(BaseKey, REASON_EXHAUSTED, 4) }

InitRetryLive ==
  /\ store \in [RetryKeyIds -> LiveRecords]
  /\ InitRequest

NextRetryLive ==
  \/ \E b \in {b \in Bodies : ValidationError(b) = ""} : ChatStart(b)
  \/ \E ans \in ExhaustedAnswers \cup OkAnswers \cup {FetchRejected} : SendRequest(ans)
  \/ StreamFlush

SpecRetryLive == InitRetryLive /\ [][NextRetryLive]_vars /\ WF_vars(NextRetryLive)

\* Sequential selections over a pool of keys just added with one rpm (given, or
\* the default of the config).
FreshPools(cfg, t) ==
  UNION { [S -> {newKey(rpm, cfg, t)}] :
            S \in SUBSET KeyIds \ {{}}, rpm \in {<<2>>, Undefined} }

InitBalance ==
  /\ InitRequest
  /\ store \in FreshPools(config, now)

NextBalance == \E d \in {0, 1} : PoolSelect(d)

SpecBalance == InitBalance /\ [][NextBalance]_vars

\* Keys whose window is old, ends exactly now or was opened a moment ago, at
\* their limit or not, enabled or not.
SweepRecords ==
  LET full == SelectedAt(BaseKey, <<2, 3>>)
  IN { BaseKey, full,
       ResetWindow(BaseKey, Now0 - RESET_WINDOW),
       SelectedAt(ResetWindow(BaseKey, Now0 - 1), <<Now0 - 1, Now0 - 1>>),
       MarkDisabled(full, REASON_EXHAUSTED, 4) }

\* the keys of the pools the sweep runs over
SweepKeyIds == {1, 2}

InitSweep ==
  /\ InitRequest
  /\ store \in Pools(SweepKeyIds, SweepRecords)

\* The sweep, the passing of time and selections.  Selections stop one window
\* before the horizon, so that every window they fill can elapse.
NextSweep ==
  \/ Sweep
  \/ Tick
  \/ now + RESET_WINDOW <= Horizon /\ PoolSelect(0)

\* The interval keeps firing and time keeps passing.
SpecSweep == InitSweep /\ [][NextSweep]_vars /\ WF_vars(Sweep) /\ WF_vars(Tick)

\* One operation on a pool left by earlier ones.  The config in the store may
\* differ from the manager's: an earlier PUT /admin/config changes only the store.
Configs == [currentAlgorithm : Algorithms, defaultRpm : {DEFAULT_RPM, 30}]

\* the rpm of a request body: absent, 0, negative, positive
RpmInputs == {Undefined, <<0>>, <<-1>>, <<3>>}

InitOps ==
  /\ config \in Configs
  /\ storedConfig \in Configs
  /\ now = Now0
  /\ store \in Pools(KeyIds, PlainRecords)
  /\ InitHandler

NextOps ==
  /\ last = NoCall
  /\ \/ \E k \in KeyIds, rpm \in RpmInputs : AdminAddKey(k, rpm)
     \/ \E k \in KeyIds, rpm \in RpmInputs, enabled \in {Undefined, <<TRUE>>, <<FALSE>>} :
          AdminUpdateKey(k, rpm, enabled)
     \/ \E k \in KeyIds : AdminDeleteKey(k)
     \/ \E alg \in {Undefined, <<"random">>} \cup {<<a>> : a \in Algorithms},
           rpm \in RpmInputs : AdminUpdateConfig(alg, rpm)
     \/ \E k \in KeyIds, u \in Usages : RecordUsage(k, UsageOf(u))
     \/ \E k \in KeyIds : Disable(k, REASON_EXHAUSTED)
     \/ Sweep
     \/ PoolSelect(0)

SpecOps == InitOps /\ [][NextOps]_vars

\* The process from its start: initialize() over a store with or without a
\* config, then an admin update of the config, then an addition, and after them
\* stand-alone selections or one chat request.  Between them the records order
\* each pair of keys differently under at least two algorithms.
ConfigRecords ==
  { BaseKey,
    SelectedAt(BaseKey, <<3>>),
    AddUsage(SelectedAt(BaseKey, <<2>>), UsageOf(CHOOSE u \in Usages : TRUE)),
    ResetWindow(SelectedAt(BaseKey, <<2, 2>>), RESET_WINDOW + 1) }

ConfigKeyIds == {1, 2}

InitConfig ==
  /\ config = NoConfig
  /\ storedConfig \in Configs \cup {NoConfig}
  /\ now = Now0
  /\ store \in [ConfigKeyIds -> ConfigRecords]
  /\ InitHandler

NextConfig ==
  \/ Initialize
  \/ /\ config # NoConfig
     /\ last.name = "initialize"
     /\ \E alg \in {Undefined} \cup {<<a>> : a \in Algorithms}, rpm \in {Undefined, <<45>>} :
          AdminUpdateConfig(alg, rpm)
  \/ /\ config # NoConfig
     /\ last.name \in {"initialize", "updateConfig"}
     /\ \E k \in ConfigKeyIds, rpm \in {Undefined, <<2>>} : AdminAddKey(k, rpm)
  \/ /\ config # NoConfig
     /\ PoolSelect(0)
  \/ /\ config # NoConfig
     /\ stamps = <<>>
     /\ \E b \in ValidBodies : ChatStart(b)
  \/ /\ config # NoConfig
     /\ \E ans \in ExhaustedAnswers \cup OkAnswers : SendRequest(ans)

SpecConfig == InitConfig /\ [][NextConfig]_vars

----------------------------------------------------------------------------
(* Properties of the selections *)

Last(seq) == seq[Len(seq)]

\* C1: a successful selection (getKey without a user key, or retryWithFreshKey)
\* returns a key whose record, as the selection read it, has enabled = true.
C1_SelectedIsEnabled ==
  selected # <<>> => listed[Last(selected)].enabled

\* a selection has succeeded over a pool that held a disabled key
C1_Witness ==
  /\ selected # <<>>
  /\ excluded = 0
  /\ \E j \in DOMAIN listed : ~listed[j].enabled

\* C2: a successful selection returns a key that had current < rpm in the record
\* the selection read; a key with current >= rpm is never returned.
C2_SelectedUnderLimit ==
  selected # <<>> =>
    listed[Last(selected)].rateLimit.current < listed[Last(selected)].rateLimit.rpm

\* a selection has succeeded over a pool that held an enabled key at its limit
C2_Witness ==
  /\ selected # <<>>
  /\ \E j \in DOMAIN listed :
       listed[j].enabled /\ listed[j].rateLimit.current = listed[j].rateLimit.rpm

\* The metric C10 names for each algorithm.
C10_Metric(rec) ==
  IF config.currentAlgorithm = "round-robin" THEN rec.usage.lastUsed
  ELSE IF config.currentAlgorithm = "least-used" THEN rec.usage.totalRequests
  ELSE rec.usage.totalTokens

\* C10: the key a selection returns minimises the metric of the configured
\* algorithm (lastUsed for round-robin, totalRequests for least-used, totalTokens
\* for token-balanced) among the enabled keys it read: none has a smaller metric.
C10_SelectedIsMinimal ==
  selected # <<>> =>
    \A j \in DOMAIN listed :
      listed[j].enabled => C10_Metric(listed[Last(selected)]) <= C10_Metric(listed[j])

\* getKey has chosen between two enabled keys that another algorithm would have
\* ordered the other way
C10_Witness ==
  /\ Len(selected) = 1
  /\ \E j \in DOMAIN listed :
       /\ listed[j].enabled
       /\ C10_Metric(listed[selected[1]]) < C10_Metric(listed[j])
       /\ \E alg \in Algorithms :
            Metric(alg, listed[j]) < Metric(alg, listed[selected[1]])

----------------------------------------------------------------------------
(* Properties of one chat request *)

\* C3: a request makes at most MAX_RETRY_ATTEMPTS + 1 = 4 upstream dispatches,
\* whatever the upstream answers and however many keys the pool holds, and it
\* ends with a response.
C3_BoundedRetry ==
  /\ [](Len(dispatched) <= MAX_RETRY_ATTEMPTS + 1)
  /\ <>(pc = "done" /\ response.status # 0)

\* four dispatches were all answered with budget exhaustion, a fifth key was
\* selected, and the request ended
C3_Witness ==
  /\ pc = "done"
  /\ Len(dispatched) = MAX_RETRY_ATTEMPTS + 1
  /\ Len(selected) = MAX_RETRY_ATTEMPTS + 2
  /\ \A i \in DOMAIN answers : isKeyExhausted(answers[i])

\* C4: in a failover (disableKey, then retryWithFreshKey) the replacement is never
\* the key just disabled, whatever the pool and the algorithm.
C4_ReplacementIsNotDisabledKey ==
  \A i \in 1..Len(selected) - 1 : selected[i + 1] # disabled[i]

\* a failover has given a replacement
C4_Witness ==
  /\ Len(selected) >= 2
  /\ Len(disabled) >= 1

\* the usage a frame reports in band (<<>>: none)
ReportedInFrame(chunk) ==
  IF chunk = FRAME_USAGE
  THEN <<[totalTokens |-> 3, promptTokens |-> 2, completionTokens |-> 1]>>
  ELSE IF chunk = FRAME_USAGE_FINAL
  THEN <<[totalTokens |-> 9, promptTokens |-> 5, completionTokens |-> 4]>>
  ELSE <<>>

\* the usage a stream of whole frames reports: that of its last frame with one
RECURSIVE ReportedInStream(_)
ReportedInStream(chunks) ==
  IF chunks = <<>> THEN [totalTokens |-> 0, promptTokens |-> 0, completionTokens |-> 0]
  ELSE IF ReportedInFrame(chunks[Len(chunks)]) # <<>>
  THEN ReportedInFrame(chunks[Len(chunks)])[1]
  ELSE ReportedInStream(SubSeq(chunks, 1, Len(chunks) - 1))

\* the usage a success reports: in its body, or in its stream
ReportedUsage ==
  IF body.stream THEN ReportedInStream(fed)
  ELSE [totalTokens |-> Last(answers).usage[1].total_tokens,
        promptTokens |-> Last(answers).usage[1].prompt_tokens,
        completionTokens |-> Last(answers).usage[1].completion_tokens]

\* C5: when the upstream answers budget exhaustion for the first key selected and
\* success for the second, the client receives the success, the first key ends
\* disabled, and the second key has totalRequests raised once and the usage of the
\* success recorded once, against it alone.
C5_Failover ==
  (/\ pc = "done"
   /\ Len(answers) = 2
   /\ isKeyExhausted(answers[1])
   /\ RespOk(answers[2]))
  => /\ response.status = 200
     /\ response.body = (IF body.stream THEN [stream |-> "text/event-stream"]
                                             ELSE answers[2])
     /\ dispatched = selected
     /\ Len(selected) = 2
     /\ ~store[selected[1]].enabled
     /\ store[selected[1]].usage = store0[selected[1]].usage
          \/ store[selected[1]].usage = MarkSelected(store0[selected[1]], now).usage
     /\ store[selected[2]].usage.totalRequests
          = store0[selected[2]].usage.totalRequests + 1
     /\ recorded = << <<selected[2], ReportedUsage>> >>
     /\ store[selected[2]].usage.totalTokens
          = store0[selected[2]].usage.totalTokens + ReportedUsage.totalTokens
     /\ store[selected[2]].usage.promptTokens
          = store0[selected[2]].usage.promptTokens + ReportedUsage.promptTokens
     /\ store[selected[2]].usage.completionTokens
          = store0[selected[2]].usage.completionTokens + ReportedUsage.completionTokens

\* such a request has ended, for a body that does not stream
C5_Witness ==
  /\ pc = "done"
  /\ ~body.stream
  /\ Len(answers) = 2
  /\ isKeyExhausted(answers[1])
  /\ RespOk(answers[2])
  /\ store0[selected[1]].enabled

\* the bodies C6 names: messages missing or empty, model missing, or a token
\* estimate above 128000
C6_Rejected(b) ==
  \/ b.messages \in {"missing", "not-array", "empty"}
  \/ b.model = ""
  \/ b.tokens > 128000

\* C6: a request that fails validation is answered 400 and leaves the pool
\* untouched: no key selected, no record changed, no upstream dispatch.
C6_ValidationLeavesPool ==
  (pc # "idle" /\ C6_Rejected(body))
  => /\ pc = "done"
     /\ response.status = 400
     /\ store = store0
     /\ selected = <<>>
     /\ dispatched = <<>>
     /\ apiKey = 0

\* a request over the token ceiling has been answered, over a pool with a key to
\* select
C6_Witness ==
  /\ pc = "done"
  /\ body.messages = "list"
  /\ body.model # ""
  /\ body.tokens > 128000
  /\ \E k \in DOMAIN store : store[k].enabled /\ store[k].rateLimit.current = 0

\* C7: a non-2xx answer that is not a 402 budget exhaustion is not retried: no
\* further dispatch, no key disabled, no replacement selected, and the response
\* is transformError of the payload and status.
C7_OtherErrorsPassThrough ==
  (/\ pc = "done"
   /\ answers # <<>>
   /\ Last(answers) # FetchRejected
   /\ ~RespOk(Last(answers))
   /\ ~(Last(answers).status = 402 /\ Last(answers).marker))
  => /\ Len(disabled) = Len(answers) - 1
     /\ Len(selected) = Len(answers)
     /\ Len(dispatched) = Len(answers)
     /\ response.status
          = transformError(errorData(Last(answers)), Last(answers).status,
                           defaultTransformConfig).status
     /\ response.body
          = transformError(errorData(Last(answers)), Last(answers).status,
                           defaultTransformConfig).body

\* The same for the answers whose body parses as JSON.
C7_JsonErrorsPassThrough ==
  (/\ pc = "done"
   /\ answers # <<>>
   /\ Last(answers) # FetchRejected
   /\ Last(answers).json
   /\ ~RespOk(Last(answers))
   /\ ~(Last(answers).status = 402 /\ Last(answers).marker))
  => /\ Len(disabled) = Len(answers) - 1
     /\ Len(selected) = Len(answers)
     /\ Len(dispatched) = Len(answers)
     /\ response.status
          = transformError(errorData(Last(answers)), Last(answers).status,
                           defaultTransformConfig).status
     /\ response.body
          = transformError(errorData(Last(answers)), Last(answers).status,
                           defaultTransformConfig).body

\* C8: when a budget exhaustion cannot be followed by another attempt (the ceiling
\* of 3 retries is exceeded, or retryWithFreshKey fails) the client receives 503
\* and there is no further dispatch.
C8_ExhaustionEndsIn503 ==
  (pc = "done" /\ answers # <<>> /\ isKeyExhausted(Last(answers)))
  => /\ response.status = 503
     /\ Len(dispatched) = Len(answers)
     /\ \/ /\ response.body = [error |-> MSG_MAX_RETRIES]
           /\ retryAttempt = 3 + 1
           /\ Len(selected) = Len(disabled) + 1
        \/ /\ response.body \in {[error |-> ERR_RETRY_NONE],
                                 [error |-> ERR_RETRY_RATE_LIMITED]}
           /\ retryAttempt <= 3
           /\ Len(selected) = Len(disabled)

\* the ceiling was exceeded
C8_Witness ==
  /\ pc = "done"
  /\ response.status = 503
  /\ response.body = [error |-> MSG_MAX_RETRIES]
  /\ Len(dispatched) = 4

\* the message C9 expects for a pool in which the first selection fails
C9_Failure(st) ==
  IF DOMAIN st = {} THEN ERR_POOL_EMPTY
  ELSE IF \A k \in DOMAIN st : ~st[k].enabled THEN ERR_NONE_ENABLED
  ELSE ERR_RATE_LIMITED

\* C9: when the first selection fails, the request is answered 429 with the
\* message of the failure, nothing is dispatched and no record is changed.
C9_SelectionFailureIs429 ==
  (pc # "idle" /\ ~C6_Rejected(body) /\ selected = <<>>)
  => /\ pc = "done"
     /\ response.status = 429
     /\ response.body = [text |-> C9_Failure(store0)]
     /\ dispatched = <<>>
     /\ store = store0

\* the first selection has failed on a rate limit
C9_Witness ==
  /\ pc = "done"
  /\ response.status = 429
  /\ response.body = [text |-> ERR_RATE_LIMITED]
  /\ \E k \in DOMAIN store : store[k].enabled

\* The streams of SpecStream: a frame of each kind, and frames that follow another.
Streams ==
  Frames \cup {FRAME_SPACED \o FRAME_STRING, FRAME_COMMENT \o FRAME_DONE}

\* the bytes of a sequence of chunks
RECURSIVE Received(_)
Received(chunks) == IF chunks = <<>> THEN <<>> ELSE Head(chunks) \o Received(Tail(chunks))

StreamBodies == {b \in Bodies : ValidationError(b) = "" /\ b.stream}

\* a pool of one new key
InitStream ==
  /\ store = [k \in {1} |-> BaseKey]
  /\ InitRequest

\* A streaming request whose upstream stream arrives cut at any byte, and ends
\* after any chunk.
NextStream ==
  \/ \E b \in StreamBodies : ChatStart(b)
  \/ \E ans \in OkAnswers : SendRequest(ans)
  \/ \E s \in Streams : \E n \in 1..Len(s) :
       /\ n > Len(Received(fed))
       /\ SubSeq(s, 1, Len(Received(fed))) = Received(fed)
       /\ StreamChunk(SubSeq(s, Len(Received(fed)) + 1, n))
  \/ StreamFlush

SpecStream == InitStream /\ [][NextStream]_vars

----------------------------------------------------------------------------
(* A stream of deltas with reasoning markers *)

\* the content of the deltas: A, <think>A, B<think>A, A</think>B, </think>,
\* <think>A</think>B, A</think> followed by a space, A</think>B</think>C
ThinkContents ==
  { <<65>>,
    THINK_OPEN \o <<65>>,
    <<66>> \o THINK_OPEN \o <<65>>,
    <<65>> \o THINK_CLOSE \o <<66>>,
    THINK_CLOSE,
    THINK_OPEN \o <<65>> \o THINK_CLOSE \o <<66>>,
    <<65>> \o THINK_CLOSE \o <<32>>,
    <<65>> \o THINK_CLOSE \o <<66>> \o THINK_CLOSE \o <<67>> }

\* the frame of a chunk whose delta holds the fields given
DeltaFrame(content, reasoning_content) ==
  Frame(DATA_PREFIX \o JsonStringify(JsonChunk(content, reasoning_content)))

\* data frames that do not parse: "data: {", and the same after a space
BrokenFrames == {FRAME_BROKEN, Frame(<<32>> \o DATA_PREFIX \o <<123>>)}

\* the frames of the streams: deltas with content, a delta without, frames that
\* do not parse, the end marker, a comment, a usage, a string, a blank frame
ThinkFrames ==
  {DeltaFrame(<<c>>, Undefined) : c \in ThinkContents}
    \cup BrokenFrames
    \cup {DeltaFrame(Undefined, Undefined), FRAME_DONE, FRAME_COMMENT, FRAME_USAGE,
          FRAME_STRING, Frame(<<32>>)}

\* the chunks the upstream stream delivers: whole frames, and the pieces of a
\* delta, of the end marker and of the string cut inside the line, inside a
\* character or inside the terminator
ThinkChunks ==
  ThinkFrames
    \cup UNION {{SubSeq(f, 1, 8), SubSeq(f, 9, Len(f)),
                 SubSeq(f, 1, Len(f) - 1), SubSeq(f, Len(f), Len(f))} :
                  f \in {DeltaFrame(<<THINK_OPEN \o <<65>>>>, Undefined), FRAME_DONE,
                         FRAME_STRING}}

ThinkBodies ==
  {[b EXCEPT !.model = m] : b \in StreamBodies, m \in {"model", "Qwen/QwQ-32B"}}

InitThink ==
  /\ InitStream
  /\ config.currentAlgorithm = "round-robin"

NextThink ==
  \/ \E b \in ThinkBodies : ChatStart(b)
  \/ \E ans \in OkAnswers : SendRequest(ans)
  \/ \E chunk \in ThinkChunks : StreamChunk(chunk)
  \/ StreamFlush

SpecThink == InitThink /\ [][NextThink]_vars

----------------------------------------------------------------------------
(* The non-streaming extraction called on its own *)

\* message contents: none, A, <think>A</think>B, C<think>A</think>B, <think>A,
\* A</think>B, </think>A<think>, the same pair and the same closing marker with
\* spaces around the segments, A after a space, <think></think>, and
\* A</think>B</think>C
ExtractContents ==
  { <<>>,
    <<65>>,
    THINK_OPEN \o <<65>> \o THINK_CLOSE \o <<66>>,
    <<67>> \o THINK_OPEN \o <<65>> \o THINK_CLOSE \o <<66>>,
    THINK_OPEN \o <<65>>,
    <<65>> \o THINK_CLOSE \o <<66>>,
    THINK_CLOSE \o <<65>> \o THINK_OPEN,
    THINK_OPEN \o <<32, 65, 32>> \o THINK_CLOSE \o <<32, 66>>,
    <<65, 32>> \o THINK_CLOSE \o <<32, 66>>,
    <<32, 65>>,
    THINK_OPEN \o THINK_CLOSE,
    <<65>> \o THINK_CLOSE \o <<66>> \o THINK_CLOSE \o <<67>> }

\* the handler transforms the message of a 2xx non-streaming answer to a request
\* for model
ExtractThink(model, content) ==
  /\ pc = "idle"
  /\ last = NoCall
  /\ last' = [name |-> "extractThink", model |-> model, content |-> content,
              result |-> extractThink(isSpecialThinkingModel(model), content)]
  /\ UNCHANGED <<store, response, storedConfig, opFrame>>

InitExtract ==
  /\ store = EmptyStore
  /\ InitRequest

NextExtract ==
  \E model \in {"model", "Qwen/QwQ-32B", "Qwen/QwQ-32B-fast"}, content \in ExtractContents :
    ExtractThink(model, content)

SpecExtract == InitExtract /\ [][NextExtract]_vars

----------------------------------------------------------------------------
(* ErrorTransformer called on its own *)

\* The rule tables transformError is given: the default one, enabled or not; one
\* whose rules overlap, with status overrides, a rule without transform and no
\* wildcard; one whose wildcard comes first.
TransformConfigs ==
  LET overlapping ==
        << [Rule("list", {404, 418}, "first", "FIRST") EXCEPT
              !.transformedStatusCode = <<502>>],
           Rule("exact", {404}, "second", "SECOND"),
           Rule("exact", {500}, "kept", ""),
           [Rule("list", {500, 503}, "", "THIRD") EXCEPT
              !.transformedStatusCode = <<504>>] >>
      wildcardFirst ==
        << Rule("wildcard", {}, "", "UNKNOWN"), Rule("exact", {404}, "late", "LATE") >>
  IN { defaultTransformConfig,
       [defaultTransformConfig EXCEPT !.enabled = FALSE],
       [enabled |-> TRUE, rules |-> overlapping],
       [enabled |-> TRUE, rules |-> wildcardFirst],
       [enabled |-> TRUE, rules |-> <<>>] }

\* transformError(error, status, cfg) called once
TransformError(error, status, cfg) ==
  /\ pc = "idle"
  /\ last = NoCall
  /\ last' = [name |-> "transformError", error |-> error, status |-> status,
              cfg |-> cfg, result |-> transformError(error, status, cfg)]
  /\ UNCHANGED <<store, response, storedConfig, opFrame>>

InitError ==
  /\ store = EmptyStore
  /\ InitRequest

NextError ==
  \E ans \in ErrorAnswers \cup {[a EXCEPT !.status = 503] : a \in ErrorAnswers},
     cfg \in TransformConfigs :
    TransformError(errorData(ans), ans.status, cfg)

SpecError == InitError /\ [][NextError]_vars

----------------------------------------------------------------------------
(* Pool operations in flight side by side *)

\* Each operation awaits its reads of the store, then awaits its write: other
\* operations run between the two.  A task is one operation in flight:
\*   op, key     the operation and its parameter key (0: none)
\*   snap        what its reads returned
\*   todo        resetRateLimits: the keys still to be written
\*   stale       history: keys written or deleted by others since its reads
\*   preDisable  history: keys whose disableKey completed since its reads
\*   preDelete   history: keys whose admin delete completed since its reads
\*   phase       "read": before its write, "done": returned
RaceKeyIds == {1, 2}

\* a key in a window opened a moment ago, with room for two more selections or for
\* one, and a key whose window has elapsed
RaceRecords ==
  { ResetWindow(BaseKey, Now0 - 1),
    SelectedAt(ResetWindow(BaseKey, Now0 - 1), <<Now0 - 1>>),
    SelectedAt(BaseKey, <<2>>) }

\* the history of a race that starts on the store st
StartRace(st) ==
  [ tasks |-> <<>>,
    start |-> st,                          \* the store at the start
    picks |-> [k \in RaceKeyIds |-> 0],    \* selections that returned each key
    swept |-> {},                          \* keys a sweep has reset
    disabledDone |-> {},                   \* keys a disableKey has written
    deletedDone |-> {},                    \* keys an admin delete has removed
    late |-> {},                           \* keys written back from stale reads
    afterDisable |-> {},                   \* ... from reads older than a later disable
    afterDelete |-> {} ]                   \* ... from reads older than a later delete

\* An operation starts and completes its reads: getKey and resetRateLimits list
\* the pool, the others get one record.
RaceBegin(op, k) ==
  /\ pc = "idle"
  /\ race # NoRace
  /\ Len(race.tasks) < MaxTasks
  /\ (op \in {"getKey", "resetRateLimits"}) = (k = 0)
  /\ LET snap == IF k = 0 THEN store ELSE [j \in DOMAIN store \cap {k} |-> store[j]]
         todo == IF op = "resetRateLimits"
                 THEN {j \in DOMAIN snap : WindowElapsed(snap[j], now)} ELSE {}
     IN race' = [race EXCEPT !.tasks = Append(@,
                   [op |-> op, key |-> k, snap |-> snap, todo |-> todo, stale |-> {},
                    preDisable |-> {}, preDelete |-> {}, phase |-> "read"])]
  /\ UNCHANGED <<store, response, storedConfig, last, idleFrame>>

\* The history after task t has written (kind "set"), removed (kind "del") or left
\* alone (kind "none") key k; left tells whether the task goes on.
Settled(rc, t, k, kind, left) ==
  LET me == rc.tasks[t]
      op == me.op
      others == [u \in DOMAIN rc.tasks |->
                   IF u # t /\ rc.tasks[u].phase = "read" /\ kind # "none"
                   THEN [rc.tasks[u] EXCEPT
                           !.stale = @ \cup {k},
                           !.preDisable = IF op = "disableKey" THEN @ \cup {k} ELSE @,
                           !.preDelete = IF op = "deleteKey" THEN @ \cup {k} ELSE @]
                   ELSE rc.tasks[u]]
      set == kind = "set"
  IN [rc EXCEPT
        !.tasks = [others EXCEPT ![t].phase = IF left = {} THEN "done" ELSE "read",
                                 ![t].todo = left],
        !.picks = IF set /\ op = "getKey" THEN [@ EXCEPT ![k] = @ + 1] ELSE @,
        !.swept = IF set /\ op = "resetRateLimits" THEN @ \cup {k} ELSE @,
        !.disabledDone = IF set /\ op = "disableKey" THEN @ \cup {k} ELSE @,
        !.deletedDone = IF kind = "del" THEN @ \cup {k} ELSE @,
        !.late = IF set /\ k \in me.stale THEN @ \cup {k} ELSE @,
        !.afterDisable = IF set /\ op = "disableKey" THEN @ \ {k}
                         ELSE IF set /\ k \in me.preDisable THEN @ \cup {k} ELSE @,
        !.afterDelete = IF kind = "del" THEN @ \ {k}
                        ELSE IF set /\ k \in me.preDelete THEN @ \cup {k} ELSE @]

\* getKey: the selection made on what was read, and the write of the selected record
RaceSelect(t) ==
  /\ t \in DOMAIN race.tasks
  /\ race.tasks[t].op = "getKey" /\ race.tasks[t].phase = "read"
  /\ \E keys \in listKeys(race.tasks[t].snap) :
       LET r == getKey(race.tasks[t].snap, keys, config.currentAlgorithm, now) IN
         IF r.ok
         THEN /\ store' = redisSet(store, r.key, r.store[r.key])
              /\ race' = Settled(race, t, r.key, "set", {})
         ELSE /\ race' = Settled(race, t, 0, "none", {})
              /\ UNCHANGED store
  /\ UNCHANGED <<response, storedConfig, last, idleFrame>>

\* updateKeyStats: the write of the record read, with the usage added
RaceRecord(t) ==
  /\ t \in DOMAIN race.tasks
  /\ race.tasks[t].op = "updateKeyStats" /\ race.tasks[t].phase = "read"
  /\ LET k == race.tasks[t].key
         snap == race.tasks[t].snap
     IN IF k \in DOMAIN snap
        THEN /\ store' = redisSet(store, k,
                  updateKeyStats(snap, k, UsageOf(CHOOSE u \in Usages : TRUE))[k])
             /\ race' = Settled(race, t, k, "set", {})
        ELSE /\ race' = Settled(race, t, k, "none", {})
             /\ UNCHANGED store
  /\ UNCHANGED <<response, storedConfig, last, idleFrame>>

\* disableKey: the write of the record read, disabled
RaceDisable(t) ==
  /\ t \in DOMAIN race.tasks
  /\ race.tasks[t].op = "disableKey" /\ race.tasks[t].phase = "read"
  /\ LET k == race.tasks[t].key
         snap == race.tasks[t].snap
     IN IF k \in DOMAIN snap
        THEN /\ store' = redisSet(store, k, disableKey(snap, k, REASON_EXHAUSTED, now)[k])
             /\ race' = Settled(race, t, k, "set", {})
        ELSE /\ race' = Settled(race, t, k, "none", {})
             /\ UNCHANGED store
  /\ UNCHANGED <<response, storedConfig, last, idleFrame>>

\* resetRateLimits: one write of its loop over the records listed, or its return
RaceSweep(t) ==
  /\ t \in DOMAIN race.tasks
  /\ race.tasks[t].op = "resetRateLimits" /\ race.tasks[t].phase = "read"
  /\ LET snap == race.tasks[t].snap
         todo == race.tasks[t].todo
     IN IF todo # {}
        THEN \E k \in todo :
               /\ store' = redisSet(store, k, resetRateLimits(snap, now)[k])
               /\ race' = Settled(race, t, k, "set", todo \ {k})
        ELSE /\ race' = Settled(race, t, 0, "none", {})
             /\ UNCHANGED store
  /\ UNCHANGED <<response, storedConfig, last, idleFrame>>

\* DELETE /admin/keys/:key: the removal after the record was found
RaceDelete(t) ==
  /\ t \in DOMAIN race.tasks
  /\ race.tasks[t].op = "deleteKey" /\ race.tasks[t].phase = "read"
  /\ LET k == race.tasks[t].key IN
       IF k \in DOMAIN race.tasks[t].snap
       THEN /\ store' = redisDel(store, k)
            /\ race' = Settled(race, t, k, "del", {})
       ELSE /\ race' = Settled(race, t, k, "none", {})
            /\ UNCHANGED store
  /\ UNCHANGED <<response, storedConfig, last, idleFrame>>

InitRace ==
  /\ config \in [currentAlgorithm : Algorithms, defaultRpm : {DEFAULT_RPM}]
  /\ storedConfig = config
  /\ now = Now0
  /\ store \in [RaceKeyIds -> RaceRecords]
  /\ InitIdle
  /\ race = StartRace(store)

NextRace ==
  \/ \E op \in {"getKey", "updateKeyStats", "disableKey", "resetRateLimits", "deleteKey"},
        k \in RaceKeyIds \cup {0} : RaceBegin(op, k)
  \/ \E t \in 1..MaxTasks : RaceSelect(t)
  \/ \E t \in 1..MaxTasks : RaceRecord(t)
  \/ \E t \in 1..MaxTasks : RaceDisable(t)
  \/ \E t \in 1..MaxTasks : RaceSweep(t)
  \/ \E t \in 1..MaxTasks : RaceDelete(t)

SpecRace == InitRace /\ [][NextRace]_vars

----------------------------------------------------------------------------
(* Properties of the pool operations *)

\* largest minus smallest usage.totalRequests over the keys of the store
C11_Spread ==
  LET counts == {store[k].usage.totalRequests : k \in DOMAIN store}
  IN (CHOOSE m \in counts : \A c \in counts : c <= m)
       - (CHOOSE m \in counts : \A c \in counts : m <= c)

\* each selection was stamped later than the one before
C11_StampsIncrease == \A i \in 1..Len(stamps) - 1 : stamps[i] < stamps[i + 1]

\* C11 as stated: from a pool of fresh enabled keys with one rpm, after N >= pool
\* size successful selections the spread of usage.totalRequests is at most 1, for
\* each of the three algorithms.
C11_SpreadEveryAlgorithm ==
  (DOMAIN store # {} /\ Len(stamps) >= Cardinality(DOMAIN store)) => C11_Spread <= 1

\* C11 amended: the same for least-used, and for round-robin when each selection
\* is stamped later than the one before.
C11_SpreadBalanced ==
  (/\ DOMAIN store # {}
   /\ Len(stamps) >= Cardinality(DOMAIN store)
   /\ \/ config.currentAlgorithm = "least-used"
      \/ config.currentAlgorithm = "round-robin" /\ C11_StampsIncrease)
  => C11_Spread <= 1

\* round-robin has gone round a pool of two keys and come back to the first
C11_Witness ==
  /\ config.currentAlgorithm = "round-robin"
  /\ Cardinality(DOMAIN store) = 2
  /\ Len(stamps) >= 3
  /\ C11_StampsIncrease
  /\ \A k \in DOMAIN store : store[k].usage.totalRequests >= 1

\* the enabled keys of st that no enabled key precedes in the order of the
\* algorithm
C12_Best(st) ==
  {k \in DOMAIN st :
     /\ st[k].enabled
     /\ \A j \in DOMAIN st : st[j].enabled => C10_Metric(st[k]) <= C10_Metric(st[j])}

\* C12: when the candidate the algorithm chooses is at its limit (current >= rpm)
\* the first selection fails with the rate-limit error, also when other enabled
\* keys are under their limit; a selection never returns a second-best key.
C12_NoFallback ==
  /\ (/\ pc # "idle"
      /\ C12_Best(store0) # {}
      /\ \A k \in C12_Best(store0) :
           store0[k].rateLimit.current >= store0[k].rateLimit.rpm)
     => /\ pc = "done"
        /\ selected = <<>>
        /\ response.status = 429
        /\ response.body = [text |-> ERR_RATE_LIMITED]
  /\ (pc # "idle" /\ selected # <<>>) => selected[1] \in C12_Best(store0)

\* the selection has failed although an enabled key was under its limit
C12_Witness ==
  /\ pc = "done"
  /\ response.status = 429
  /\ response.body = [text |-> ERR_RATE_LIMITED]
  /\ \E k \in DOMAIN store0 :
       /\ store0[k].enabled
       /\ store0[k].rateLimit.current < store0[k].rateLimit.rpm

\* C14: a successful selection changes the record of the returned key alone:
\* current and totalRequests grow by 1, lastUsed is stamped, and its enabled
\* flag, rpm, lastReset and token counters stay; no other record changes.
C14_SelectionFrame ==
  pc = "dispatch" =>
    LET k == Last(selected) IN
      /\ DOMAIN store = DOMAIN listed
      /\ \A j \in DOMAIN store \ {k} : store[j] = listed[j]
      /\ store[k].rateLimit.current = listed[k].rateLimit.current + 1
      /\ store[k].usage.totalRequests = listed[k].usage.totalRequests + 1
      /\ store[k].usage.lastUsed = now
      /\ store[k].enabled = listed[k].enabled
      /\ store[k].rateLimit.rpm = listed[k].rateLimit.rpm
      /\ store[k].rateLimit.lastReset = listed[k].rateLimit.lastReset
      /\ store[k].usage.totalTokens = listed[k].usage.totalTokens
      /\ store[k].usage.promptTokens = listed[k].usage.promptTokens
      /\ store[k].usage.completionTokens = listed[k].usage.completionTokens
      /\ store[k].disabledReason = listed[k].disabledReason
      /\ store[k].disabledAt = listed[k].disabledAt

\* a replacement with recorded tokens was selected from a pool of two keys
C14_Witness ==
  /\ pc = "dispatch"
  /\ Len(selected) = 2
  /\ listed[Last(selected)].usage.totalTokens > 0
  /\ listed[Last(selected)].rateLimit.lastReset # now

\* what C13 expects a sweep at time t to leave of the record rec
C13_Swept(rec, t) ==
  IF t - rec.rateLimit.lastReset >= 60000
  THEN [rec EXCEPT !.rateLimit = [rpm |-> rec.rateLimit.rpm, current |-> 0, lastReset |-> t]]
  ELSE rec

\* C13: a sweep resets current to 0 and restamps lastReset for every key whose
\* window has elapsed (60 s or more since lastReset) and leaves every other key
\* unchanged; with the sweep firing and time passing, a key that is at
\* current = rpm is eventually seen with current = 0, under its limit again.
C13_SweepResets ==
  /\ [](last.name = "sweep" =>
          /\ DOMAIN store = DOMAIN last.before
          /\ \A k \in DOMAIN store : store[k] = C13_Swept(last.before[k], last.at))
  /\ \A k \in SweepKeyIds :
       (k \in DOMAIN store /\ store[k].rateLimit.current = store[k].rateLimit.rpm)
         ~> (/\ k \in DOMAIN store
             /\ store[k].rateLimit.current = 0
             /\ store[k].rateLimit.current < store[k].rateLimit.rpm)

\* a sweep has reset a key that was at its limit and left alone a key whose
\* window had not elapsed
C13_Witness ==
  /\ last.name = "sweep"
  /\ \E k \in DOMAIN store :
       /\ last.before[k].rateLimit.current = last.before[k].rateLimit.rpm
       /\ store[k].rateLimit.current = 0
       /\ store[k].rateLimit.lastReset = now
  /\ \E k \in DOMAIN store :
       /\ last.before[k].rateLimit.current > 0
       /\ store[k] = last.before[k]

\* C15: every stored key has rpm > 0, after any of addKey (with or without an
\* rpm), admin key update, selection, usage recording, disable and sweep.
C15_RpmPositive ==
  \A k \in DOMAIN store : store[k].rateLimit.rpm > 0

\* C16: PUT /admin/config applies a patch only after validating it: a patch whose
\* algorithm is not one of the three, or whose rpm is not > 0, is answered with
\* an error and leaves the config in the store unchanged.
C16_UpdateConfigValidates ==
  (/\ last.name = "updateConfig"
   /\ \/ /\ last.currentAlgorithm # <<>>
         /\ last.currentAlgorithm[1] \notin {"round-robin", "least-used", "token-balanced"}
      \/ /\ last.defaultRpm # <<>>
         /\ ~(last.defaultRpm[1] > 0))
  => /\ response.status >= 400
     /\ storedConfig = last.configBefore

\* C17: updateKeyStats and disableKey on a key that is not in the store leave the
\* store unchanged (no record appears); on a key of the store updateKeyStats
\* adds the usage to the three token counters, and disableKey sets enabled to
\* false with the reason and the time; nothing else changes.
C17_MissingKeyIsNoOp ==
  last.name \in {"updateKeyStats", "disableKey"} =>
    IF last.key \notin DOMAIN last.before
    THEN store = last.before
    ELSE /\ DOMAIN store = DOMAIN last.before
         /\ \A j \in DOMAIN store \ {last.key} : store[j] = last.before[j]
         /\ store[last.key].rateLimit = last.before[last.key].rateLimit
         /\ store[last.key].usage.totalRequests = last.before[last.key].usage.totalRequests
         /\ store[last.key].usage.lastUsed = last.before[last.key].usage.lastUsed
         /\ IF last.name = "updateKeyStats"
            THEN /\ store[last.key].usage.totalTokens
                      = last.before[last.key].usage.totalTokens + last.usage.totalTokens
                 /\ store[last.key].usage.promptTokens
                      = last.before[last.key].usage.promptTokens + last.usage.promptTokens
                 /\ store[last.key].usage.completionTokens
                      = last.before[last.key].usage.completionTokens
                          + last.usage.completionTokens
                 /\ store[last.key].enabled = last.before[last.key].enabled
                 /\ store[last.key].disabledReason = last.before[last.key].disabledReason
                 /\ store[last.key].disabledAt = last.before[last.key].disabledAt
            ELSE /\ store[last.key].usage = last.before[last.key].usage
                 /\ store[last.key].enabled = FALSE
                 /\ store[last.key].disabledReason = last.reason
                 /\ store[last.key].disabledAt = last.at

\* usage was recorded for a key that is not in a store holding another key
C17_Witness ==
  /\ last.name = "updateKeyStats"
  /\ last.key \notin DOMAIN last.before
  /\ DOMAIN last.before # {}

\* C18: addKey on a key already in the store replaces its record with a new one:
\* enabled, current 0, every usage counter 0, no disabledReason or disabledAt,
\* rpm the given one or the default of the config, whatever the record held.
C18_AddKeyOverwrites ==
  last.name = "addKey" =>
    /\ DOMAIN store = DOMAIN last.before \cup {last.key}
    /\ \A j \in DOMAIN store \ {last.key} : store[j] = last.before[j]
    /\ store[last.key].enabled = TRUE
    /\ store[last.key].rateLimit.current = 0
    /\ store[last.key].rateLimit.lastReset = last.at
    /\ store[last.key].rateLimit.rpm
         = (IF last.rpm # <<>> /\ last.rpm[1] # 0 THEN last.rpm[1] ELSE config.defaultRpm)
    /\ store[last.key].usage
         = [totalTokens |-> 0, promptTokens |-> 0, completionTokens |-> 0,
            totalRequests |-> 0, lastUsed |-> 0]
    /\ store[last.key].disabledReason = ""
    /\ store[last.key].disabledAt = 0

\* a disabled key was added again, with the config in the store holding another
\* default than the manager's
C18_Witness ==
  /\ last.name = "addKey"
  /\ last.key \in DOMAIN last.before
  /\ ~last.before[last.key].enabled
  /\ last.rpm = <<>>
  /\ storedConfig.defaultRpm # config.defaultRpm

----------------------------------------------------------------------------
(* Properties of the responses *)

\* C20: the output of a stream, and the usage counted from it, do not depend on
\* how the upstream bytes are cut into chunks: they are those of the same bytes
\* received as one chunk.
C20_ChunkingIndependent ==
  (pc = "done" /\ body.stream /\ response.status = 200)
  => LET whole == transform(<<>>, ZeroUsage, isSpecialThinkingModel(body.model),
                            body.model, Received(fed))
     IN /\ Received(output) = Received(whole.out \o flushed(whole.buffer))
        /\ totals = whole.totals

\* no byte of a chunk is part of a longer character
C20_PlainBytes == \A i \in DOMAIN fed : \A j \in DOMAIN fed[i] : fed[i][j] < 128

\* The same, for streams of single-byte characters: cuts inside a line, inside a
\* frame's terminator and between frames change nothing.
C20_PlainChunkingIndependent == C20_PlainBytes => C20_ChunkingIndependent

\* a stream was cut inside the terminator of a frame and has ended
C20_Witness ==
  /\ pc = "done"
  /\ Len(fed) = 2
  /\ C20_PlainBytes
  /\ Received(fed) = FRAME_USAGE
  /\ Len(fed[2]) = 1

\* C19: the usage of a completed request is recorded exactly once, against the
\* key of the successful dispatch: after a failover the replacement, never a
\* key disabled earlier in the request.  For a stream the recording is made when
\* the stream ends, with the usage reported in band.
C19_UsageRecordedOnce ==
  /\ (pc = "done" /\ response.status = 200)
     => /\ Len(recorded) = 1
        /\ recorded[1][1] = Last(dispatched)
        /\ recorded[1][1] = Last(selected)
        /\ \A i \in DOMAIN disabled : disabled[i] # recorded[1][1]
        /\ recorded[1][2] = ReportedUsage
  /\ (pc = "done" /\ response.status # 200) => recorded = <<>>
  /\ pc # "done" => recorded = <<>>

\* a stream of two frames with usage has ended after a failover
C19_Witness ==
  /\ pc = "done"
  /\ body.stream
  /\ Len(disabled) = 1
  /\ fed = <<FRAME_USAGE, FRAME_USAGE_FINAL>>
  /\ Len(recorded) = 1

----------------------------------------------------------------------------
(* Properties of the ErrorTransformer *)

\* the rule matches the status: wildcard, exact status or member of the list
C26_Matches(rule, status) == rule.kind = "wildcard" \/ status \in rule.codes

\* C26: transformError answers with the first rule of the table that matches the
\* status and with no later one: the body is that rule's transform of the error
\* (the error itself without a transform) with the rule's message, the status is
\* the rule's override or else the input status.  With the default table 404
\* gives code NOT_FOUND and 418 the wildcard's body.  A disabled table and a
\* table without a matching rule return the body and the status unchanged.
C26_FirstMatchWins ==
  last.name = "transformError" =>
    LET rules == last.cfg.rules
        hits == {i \in DOMAIN rules : C26_Matches(rules[i], last.status)}
    IN IF ~last.cfg.enabled \/ hits = {}
       THEN last.result = [body |-> last.error, status |-> last.status]
       ELSE LET first == CHOOSE i \in hits : \A j \in hits : i <= j
                rule == rules[first]
            IN /\ last.result.status
                    = (IF rule.transformedStatusCode = <<>> THEN last.status
                       ELSE rule.transformedStatusCode[1])
               /\ rule.message # "" => last.result.body.message = rule.message
               /\ IF rule.transform = ""
                  THEN \A f \in DOMAIN last.error : last.result.body[f] = last.error[f]
                  ELSE IF rule.transform = "UNKNOWN"
                  THEN last.result.body = [message |-> "unknown error"]
                  ELSE last.result.body.code = rule.transform
               /\ (last.cfg = defaultTransformConfig /\ last.status = 404)
                    => last.result.body.code = "NOT_FOUND"
               /\ (last.cfg = defaultTransformConfig /\ last.status = 418)
                    => last.result = [body |-> [message |-> "unknown error"],
                                      status |-> 418]

\* a status that two rules of a table match was transformed by the first, with
\* its status override
C26_Witness ==
  /\ last.name = "transformError"
  /\ last.cfg.enabled
  /\ Cardinality({i \in DOMAIN last.cfg.rules :
                    C26_Matches(last.cfg.rules[i], last.status)}) = 2
  /\ last.result.status = 502
  /\ last.result.body.code = "FIRST"

----------------------------------------------------------------------------
(* Properties of the selections of a request *)

\* C30: every selection made for a request, the first and each replacement, is
\* followed by one dispatch with the selected key: when the request has ended the
\* keys dispatched are the keys selected, in order, and each key's totalRequests
\* and current have grown by the number of dispatches made with it.
C30_EverySelectionDispatched ==
  pc = "done" =>
    /\ selected = dispatched
    /\ \A k \in DOMAIN store :
         LET uses == Cardinality({i \in DOMAIN dispatched : dispatched[i] = k}) IN
           /\ store[k].usage.totalRequests = store0[k].usage.totalRequests + uses
           /\ store[k].rateLimit.current = store0[k].rateLimit.current + uses

----------------------------------------------------------------------------
(* Properties of the pool operations in flight side by side *)

\* C27, as stated: a key the relay has disabled keeps enabled = false, whatever
\* selections, usage recordings and sweeps run side by side with the disable.
C27_DisabledStays ==
  \A k \in race.disabledDone : k \in DOMAIN store => ~store[k].enabled

\* C27, amended: a key the relay has disabled keeps enabled = false unless an
\* operation that read the record before the disable was written writes the
\* record back after it.
C27_DisabledStaysUnlessLate ==
  \A k \in race.disabledDone \ race.afterDisable :
     k \in DOMAIN store => ~store[k].enabled

\* a disable that raced with another operation on the same key: both have
\* written, the disable last
C27_Witness ==
  \E k \in race.disabledDone \ race.afterDisable :
     /\ k \in DOMAIN store /\ ~store[k].enabled
     /\ k \in race.late
     /\ \A t \in DOMAIN race.tasks : race.tasks[t].phase = "done"

\* the selections a key's window had room for at the start
C28_Room(k) == race.start[k].rateLimit.rpm - race.start[k].rateLimit.current

\* C28, as stated: whatever the interleaving of the selections of concurrent
\* requests, a key is returned at most as often as its window has room for, and
\* its totalRequests grows by one for each selection that returned it.
C28_WithinLimit ==
  (\A t \in DOMAIN race.tasks : race.tasks[t].op = "getKey") =>
    \A k \in RaceKeyIds :
      /\ race.picks[k] <= C28_Room(k)
      /\ store[k].usage.totalRequests =
           race.start[k].usage.totalRequests + race.picks[k]

\* C28, amended: between two resets, a key whose record no operation wrote back
\* from a read that another write had overtaken is returned at most as often as
\* its window has room for, and its totalRequests grows by one for each selection
\* that returned it.
C28_WithinLimitUnlessLate ==
  \A k \in RaceKeyIds \ (race.late \cup race.swept) :
    /\ race.picks[k] <= C28_Room(k)
    /\ k \in DOMAIN store =>
         /\ store[k].usage.totalRequests =
              race.start[k].usage.totalRequests + race.picks[k]
         /\ store[k].rateLimit.current =
              race.start[k].rateLimit.current + race.picks[k]

\* two selections, one after the other, have filled a key's window
C28_Witness ==
  \E k \in RaceKeyIds \ (race.late \cup race.swept) :
    /\ k \in DOMAIN store
    /\ race.picks[k] = 2
    /\ race.picks[k] = C28_Room(k)
    /\ \A t \in DOMAIN race.tasks : race.tasks[t].phase = "done"

\* C29, as stated: a key an admin delete has removed has no record, whatever
\* selection, usage recording, disable or sweep was in flight, and only an admin
\* delete removes a record.
C29_DeletedStays ==
  /\ \A k \in race.deletedDone : k \notin DOMAIN store
  /\ DOMAIN race.start \ DOMAIN store \subseteq race.deletedDone

\* C29, amended: a key an admin delete has removed has no record unless an
\* operation that read the record before the delete completed writes it back
\* after it, and only an admin delete removes a record.
C29_DeletedStaysUnlessLate ==
  /\ \A k \in race.deletedDone \ race.afterDelete : k \notin DOMAIN store
  /\ DOMAIN race.start \ DOMAIN store \subseteq race.deletedDone

\* a key was deleted, and a usage recording that came after the delete found no
\* record and wrote none
C29_Witness ==
  \E k \in race.deletedDone \ race.afterDelete :
    /\ k \notin DOMAIN store
    /\ \E t \in DOMAIN race.tasks :
         /\ race.tasks[t].op = "updateKeyStats" /\ race.tasks[t].key = k
         /\ race.tasks[t].phase = "done"
         /\ k \notin DOMAIN race.tasks[t].snap

----------------------------------------------------------------------------
(* Properties of the stream transform *)

\* the text the transform has decoded from the chunks
RECURSIVE C21_Decoded(_)
C21_Decoded(chunks) ==
  IF chunks = <<>> THEN <<>> ELSE Decode(Head(chunks)) \o C21_Decoded(Tail(chunks))

\* the output frame o is the one the input frame m produces: the frame itself,
\* or for a payload that parses a data frame of the same value (for a chunk: of a
\* chunk)
C21_Derived(m, o) ==
  LET t == Trim(m)
      p == JsonParse(Slice(t, 6))
      out == Decode(o)
      q == JsonParse(Slice(SubSeq(out, 1, Len(out) - 2), 6))
  IN IF t # DATA_DONE /\ StartsWith(t, DATA_PREFIX) /\ p.ok
     THEN /\ StartsWith(out, DATA_PREFIX)
          /\ SubSeq(out, Len(out) - 1, Len(out)) = NN
          /\ IF p.value.type = "chunk"
             THEN StartsWith(Slice(out, 6), J_DELTA)
             ELSE q.ok /\ q.value = p.value
     ELSE o = Encode(m \o NN)

\* C21: when a stream has ended, the output holds one frame for each frame of
\* the input that is not blank, in the order of the input, each the frame its
\* input frame produces, and then the text left after the last terminator, if
\* it is not blank: no frame is dropped, duplicated or moved, however the input
\* was cut into chunks.
C21_EveryFrameOnce ==
  (pc = "done" /\ body.stream /\ response.status = 200) =>
    LET messages == Split(C21_Decoded(fed))
        frames == SelectSeq(SubSeq(messages, 1, Len(messages) - 1),
                            LAMBDA m : Trim(m) # <<>>)
        trailing == messages[Len(messages)]
        tail == IF Trim(trailing) # <<>> THEN <<Encode(trailing)>> ELSE <<>>
    IN /\ Len(output) = Len(frames) + Len(tail)
       /\ \A i \in DOMAIN frames : C21_Derived(frames[i], output[i])
       /\ tail # <<>> => output[Len(output)] = tail[1]

\* a stream of a comment and an end marker whose terminator never came: the
\* comment was forwarded and the flush emitted the rest
C21_Witness ==
  /\ pc = "done"
  /\ Len(fed) = 2
  /\ output = <<FRAME_COMMENT, SubSeq(FRAME_DONE, 1, Len(FRAME_DONE) - 1)>>

\* C22: a data frame whose payload does not parse is enqueued as it came, with
\* its terminator, and the reasoning flag and the usage counters stay as they
\* were.
C22_UnparsedForwarded ==
  [][(/\ pc = "streaming" /\ buffer = <<>>
      /\ Len(fed') = Len(fed) + 1
      /\ Last(fed') \in BrokenFrames)
     => /\ output' = Append(output, Last(fed'))
        /\ isProcessingReasoning' = isProcessingReasoning
        /\ totals' = totals]_vars

\* a frame that does not parse came after a usage, inside a reasoning segment
C22_Witness ==
  /\ Len(fed) = 2
  /\ fed[1] = FRAME_USAGE
  /\ fed[2] \in BrokenFrames
  /\ output = fed
  /\ isProcessingReasoning
  /\ totals # ZeroUsage

\* the request names a thinking-default model
C23_Special == body.model = "Qwen/QwQ-32B"

\* the step in which the transform is given the delta of content c as one chunk,
\* nothing being buffered
C23_OnDelta(c) ==
  /\ pc = "streaming" /\ buffer = <<>>
  /\ fed' = Append(fed, DeltaFrame(<<c>>, Undefined))

\* the frame emitted for a delta without a marker
C23_Plain(c) ==
  /\ isProcessingReasoning' = isProcessingReasoning
  /\ output' = Append(output, IF isProcessingReasoning
                              THEN DeltaFrame(Undefined, <<c>>)
                              ELSE DeltaFrame(<<c>>, Undefined))

\* C23, as stated: the flag starts set for a thinking-default model and clear
\* otherwise; a delta with an opening marker sets it (other models only), a delta
\* with a closing marker clears it, and a delta with neither leaves it and is
\* emitted as reasoning while it is set, as content while it is clear.
C23_StateMachine ==
  [][/\ (pc # "streaming" /\ pc' = "streaming") => isProcessingReasoning' = C23_Special
     /\ \A c \in ThinkContents :
          C23_OnDelta(c) =>
            /\ (Includes(c, THINK_OPEN) /\ ~C23_Special) => isProcessingReasoning'
            /\ Includes(c, THINK_CLOSE) => ~isProcessingReasoning'
            /\ (~Includes(c, THINK_OPEN) /\ ~Includes(c, THINK_CLOSE)) => C23_Plain(c)]_vars

\* C23, amended: the same, where the delta that sets the flag is one with an
\* opening marker and no closing marker.
C23_StateMachineCloseFirst ==
  [][/\ (pc # "streaming" /\ pc' = "streaming") => isProcessingReasoning' = C23_Special
     /\ \A c \in ThinkContents :
          C23_OnDelta(c) =>
            /\ (Includes(c, THINK_OPEN) /\ ~Includes(c, THINK_CLOSE) /\ ~C23_Special)
                 => isProcessingReasoning'
            /\ Includes(c, THINK_CLOSE) => ~isProcessingReasoning'
            /\ (~Includes(c, THINK_OPEN) /\ ~Includes(c, THINK_CLOSE)) => C23_Plain(c)]_vars

\* an opening marker set the flag and a delta with both markers has cleared it
C23_Witness ==
  /\ ~C23_Special
  /\ fed = <<DeltaFrame(<<THINK_OPEN \o <<65>>>>, Undefined),
             DeltaFrame(<<THINK_OPEN \o <<65>> \o THINK_CLOSE \o <<66>>>>, Undefined)>>
  /\ Len(output) = 2
  /\ ~isProcessingReasoning

\* the text of c before the first pat, and the text after it
C24_Cut(c, pat) ==
  LET at == CHOOSE i \in 1..Len(c) :
              /\ SubSeq(c, i, i + Len(pat) - 1) = pat
              /\ \A j \in 1..i - 1 : SubSeq(c, j, j + Len(pat) - 1) # pat
  IN [before |-> SubSeq(c, 1, at - 1), after |-> SubSeq(c, at + Len(pat), Len(c))]

\* a field holding the text, or no field for no text
C24_Field(text) == IF text = <<>> THEN Undefined ELSE <<text>>

\* C24: a delta with a closing marker is emitted with the text before the marker
\* as reasoning and the text after it as content, a delta with an opening marker
\* (and no closing one, for a model that is not thinking-default) with the text
\* before the marker as content and the text after it as reasoning; a field is
\* left out only where its text is empty, so no character but the marker's is lost.
C24_SplitKeepsText ==
  [][\A c \in ThinkContents :
       C23_OnDelta(c) =>
         IF Includes(c, THINK_CLOSE)
         THEN output' = Append(output, DeltaFrame(C24_Field(C24_Cut(c, THINK_CLOSE).after),
                                                   C24_Field(C24_Cut(c, THINK_CLOSE).before)))
         ELSE (Includes(c, THINK_OPEN) /\ ~C23_Special) =>
                output' = Append(output, DeltaFrame(C24_Field(C24_Cut(c, THINK_OPEN).before),
                                                    C24_Field(C24_Cut(c, THINK_OPEN).after)))]_vars

----------------------------------------------------------------------------
(* Properties of the non-streaming extraction *)

\* the number of times pat occurs in text
C25_Count(text, pat) ==
  Cardinality({i \in 1..Len(text) - Len(pat) + 1 : SubSeq(text, i, i + Len(pat) - 1) = pat})

\* content holds one opening marker, and one closing marker after it
C25_OnePair(content) ==
  /\ C25_Count(content, THINK_OPEN) = 1
  /\ C25_Count(content, THINK_CLOSE) = 1
  /\ Len(C24_Cut(content, THINK_OPEN).before) < Len(C24_Cut(content, THINK_CLOSE).before)

\* content holds no opening marker with a closing marker after it
C25_NoPair(content) ==
  \/ ~Includes(content, THINK_OPEN)
  \/ ~Includes(C24_Cut(content, THINK_OPEN).after, THINK_CLOSE)

\* what the claim gives for content, each segment passed through f: for a
\* thinking-default model the text before the one closing marker as reasoning and
\* the text after it as content, or all of it as reasoning; for another model the
\* text inside the one pair as reasoning and the rest as content, or the input
\* where there is no pair
C25_Expected(special, content, f(_)) ==
  IF special
  THEN IF Includes(content, THINK_CLOSE)
       THEN [content |-> f(C24_Cut(content, THINK_CLOSE).after),
             reasoning_content |-> <<f(C24_Cut(content, THINK_CLOSE).before)>>]
       ELSE [content |-> <<>>, reasoning_content |-> <<f(content)>>]
  ELSE IF C25_OnePair(content)
       THEN LET inside == C24_Cut(content, THINK_OPEN).after IN
              [content |-> f(C24_Cut(content, THINK_OPEN).before
                               \o C24_Cut(inside, THINK_CLOSE).after),
               reasoning_content |-> <<f(C24_Cut(inside, THINK_CLOSE).before)>>]
       ELSE [content |-> content, reasoning_content |-> Undefined]

\* the text as it is
C25_Same(text) == text

\* the text without the white space around it
C25_Trimmed(text) ==
  LET inked == {i \in DOMAIN text : text[i] \notin {9, 10, 13, 32}} IN
    IF inked = {} THEN <<>>
    ELSE SubSeq(text, CHOOSE i \in inked : \A j \in inked : i <= j,
                      CHOOSE i \in inked : \A j \in inked : i >= j)

\* the inputs the claim speaks of: for a thinking-default model at most one
\* closing marker, for another model one complete pair or none
C25_Covered(special, content) ==
  IF special THEN C25_Count(content, THINK_CLOSE) <= 1
  ELSE C25_OnePair(content) \/ C25_NoPair(content)

\* C25, as stated: the extraction gives the segments themselves.
C25_Extraction ==
  last.name = "extractThink" =>
    LET special == last.model \in {"Qwen/QwQ-32B", "Qwen/QwQ-32B-fast"} IN
      C25_Covered(special, last.content) =>
        last.result = C25_Expected(special, last.content, C25_Same)

\* C25, amended: the extraction gives the segments without the white space
\* around them, and leaves an empty content as it is.
C25_ExtractionTrimmed ==
  last.name = "extractThink" =>
    LET special == last.model \in {"Qwen/QwQ-32B", "Qwen/QwQ-32B-fast"} IN
      (C25_Covered(special, last.content) /\ last.content # <<>>) =>
        last.result = C25_Expected(special, last.content, C25_Trimmed)

\* a pair with spaces around its segments was extracted
C25_Witness ==
  /\ last.name = "extractThink"
  /\ last.model = "model"
  /\ last.content = THINK_OPEN \o <<32, 65, 32>> \o THINK_CLOSE \o <<32, 66>>
  /\ last.result = [content |-> <<66>>, reasoning_content |-> <<<<65>>>>]

----------------------------------------------------------------------------
(* Properties of the manager's config *)

\* the field an algorithm orders the keys by
C31_Metric(alg, rec) ==
  IF alg = "round-robin" THEN rec.usage.lastUsed
  ELSE IF alg = "least-used" THEN rec.usage.totalRequests
  ELSE rec.usage.totalTokens

\* k is, among the enabled keys of st other than ex, one that alg puts first
C31_First(alg, st, k, ex) ==
  \A j \in DOMAIN st :
    (st[j].enabled /\ j # ex) => C31_Metric(alg, st[k]) <= C31_Metric(alg, st[j])

\* What the selections, the additions and the config route did with the config
\* the manager holds: a selection of the handler (getKey or retryWithFreshKey)
\* and a stand-alone getKey returned a key the manager's algorithm puts first;
\* an addition without an rpm took the manager's default rpm; an accepted update
\* left its patch in the store.
C31_Used ==
  config # NoConfig =>
    /\ selected # <<>> =>
         C31_First(config.currentAlgorithm, listed, selected[Len(selected)], excluded)
    /\ (last.name = "getKey" /\ last.ok) =>
         C31_First(config.currentAlgorithm, last.before, last.key, 0)
    /\ (last.name = "addKey" /\ (last.rpm = <<>> \/ last.rpm[1] = 0)) =>
         store[last.key].rateLimit.rpm = config.defaultRpm
    /\ (last.name = "updateConfig" /\ response.status = 200) =>
         /\ last.currentAlgorithm # <<>> =>
              storedConfig.currentAlgorithm = last.currentAlgorithm[1]
         /\ (last.defaultRpm # <<>> /\ last.defaultRpm[1] > 0) =>
              storedConfig.defaultRpm = last.defaultRpm[1]

\* What a step does to the manager's config: initialize() takes the config of
\* the store, or takes and persists {round-robin, 60} when the store has none;
\* after it no step changes the manager's config.
C31_Kept ==
  IF config = NoConfig
  THEN /\ config' = (IF storedConfig # NoConfig THEN storedConfig
                     ELSE [currentAlgorithm |-> "round-robin", defaultRpm |-> 60])
       /\ storedConfig' = config'
  ELSE config' = config

\* C31: the algorithm of every selection (getKey, retryWithFreshKey) and the
\* default rpm of every addition are those of the config the manager took at
\* initialize(): the one of the store, or {round-robin, 60}, persisted, when the
\* store had none.  An admin config update changes the config in the store and
\* not the one the manager holds, so the selections and additions after it go
\* on with the algorithm and the default rpm taken at initialize().
C31_ConfigHeldSinceInitialize == []C31_Used /\ [][C31_Kept]_vars

\* After an update that changed both fields of the stored config, a key was
\* added with the manager's default rpm, not the stored one, and a selection then
\* returned a key the manager's algorithm puts first where the stored algorithm
\* puts another before it.
C31_Witness ==
  /\ config # NoConfig
  /\ storedConfig.currentAlgorithm # config.currentAlgorithm
  /\ storedConfig.defaultRpm # config.defaultRpm
  /\ last.name = "getKey"
  /\ last.ok
  /\ \E j \in DOMAIN last.before :
       /\ last.before[j].enabled
       /\ last.before[j].rateLimit.rpm = config.defaultRpm
       /\ last.before[j].usage.totalRequests = 0
       /\ C31_Metric(storedConfig.currentAlgorithm, last.before[j])
            < C31_Metric(storedConfig.currentAlgorithm, last.before[last.key])

====
